---- MODULE Spec2Model ----
(***************************************************************************)
(* Model of the HTTP handlers and scripts of the news frontend:            *)
(*   - GET /api/revalidate          (src/app/api/revalidate/route.ts)      *)
(*   - the pages-API revalidation   (src/pages/api/revalidate.ts)          *)
(*   - POST and GET /api/webhook    (src/app/api/webhook/route.ts)         *)
(*   - the S3 upload scripts        (src/scripts/upload-to-s3.ts and its   *)
(*     JavaScript variant in src/scripts/test-strapi.js)                   *)
(*   - the CMS fetch functions      (src/app/lib/api/articles.ts)          *)
(* Each handler invocation is one action.  The framework's cache           *)
(* invalidation (revalidatePath, revalidateTag, res.revalidate) and the    *)
(* append to the log file are external calls: whether they throw is drawn  *)
(* from the environment (variable io).                                     *)
(***************************************************************************)
EXTENDS Integers, Sequences, FiniteSets, TLC

VARIABLES
    env,      \* process.env: the variables the handler or script reads
    handler,  \* the handler or script that ran in the current invocation, or "none"
    req,      \* the request (for a script: the input) of the current invocation
    io,       \* what the external calls of the invocation do (throw or return)
    calls,    \* the external calls the invocation made, in order
    resp,     \* the response (for a script: the exit status) of the invocation
    logs,     \* the lines appended to the log files, where a specification
              \* follows them (SpecRepeat, SpecConcurrent); elsewhere the log
              \* is seen through io.appendFails only
    inflight, \* the invocations or runs that overlap in time (SpecConcurrent,
              \* SpecExport)
    pending,  \* the external calls started and not yet settled (SpecIo)
    disk      \* the output directory out/ that overlapping runs of an export
              \* script share (SpecExport)

vars == <<env, handler, req, io, calls, resp, logs, inflight, pending, disk>>

\* Over the variables followed by some specifications only.
NoLogs == [none |-> <<>>]
NoneInFlight == <<>>
NonePending == {}
NoDisk == [exists |-> FALSE, files |-> {}]

(***************************************************************************)
(* Values                                                                  *)
(***************************************************************************)

\* JavaScript null / undefined: an absent header, query parameter, body key
\* or environment variable.
Null == "<null>"

\* JavaScript truthiness of a string-or-null value.
Truthy(v) == v # Null /\ v # ""

\* Number of distinct article slugs the requests range over.
MaxSlug == 1

Slugs == {"s" \o ToString(i) : i \in 1..MaxSlug}

\* The message of the error an external call throws.
ThrownMessage == "boom"

\* The keys a JSON response body may carry; Null marks a key the body lacks
\* (paths: the empty list, which no handler ever sends).  The `now` and
\* `timestamp` keys hold the clock and are left out.
NoKeys ==
    [revalidated |-> Null, success |-> Null, path |-> Null, paths |-> <<>>,
     error |-> Null, details |-> Null, message |-> Null]

\* NextResponse.json(body, {status}) / res.status(status).json(body)
Json(status, body) == [status |-> status] @@ body @@ NoKeys

\* No response: the exception left the handler.
Uncaught == Json(0, [error |-> "uncaught"])

NoReq == [none |-> Null]
NoIo == [none |-> Null]
NoResp == [status |-> -1]

\* One call of the framework's cache invalidation.
Call(fn, arg) == [fn |-> fn, arg |-> arg]

(***************************************************************************)
(* GET /api/revalidate                                                     *)
(***************************************************************************)

\* log without its try/catch: a failed append throws.
log_revalidate_nocatch(appendFails) ==
    IF appendFails THEN "thrown" ELSE "appended"

\* log: appendFileSync inside try/catch; a failed append is swallowed.
log_revalidate(appendFails) ==
    IF appendFails THEN "swallowed" ELSE "appended"

\* isValidRequest reduced to the comparison alone.
isValidRequest_compare_only(r, e) ==
    r.secret = e.REVALIDATION_SECRET

isValidRequest(r, e) ==
    LET secret == r.secret
        expectedSecret == e.REVALIDATION_SECRET
    IN  IF ~Truthy(expectedSecret) THEN FALSE
        ELSE IF ~Truthy(secret) THEN FALSE
        ELSE IF secret # expectedSecret THEN FALSE
        ELSE TRUE

\* The path without its default.
RequestedPath_no_default(r) == r.path

\* The path always the default.
RequestedPath_always_root(r) == "/"

\* const path = searchParams.get('path') || '/'
RequestedPath(r) == IF Truthy(r.path) THEN r.path ELSE "/"

\* The whole handler: the calls it makes and the response it returns.
GET_revalidate(r, e, x) ==
    IF log_revalidate(x.appendFails) = "thrown"
    THEN \* line 64 is outside the try block
         [calls |-> <<>>, resp |-> Uncaught]
    ELSE IF ~isValidRequest(r, e)
    THEN [calls |-> <<>>, resp |-> Json(401, [error |-> "Token invalido"])]
    ELSE LET path == RequestedPath(r) IN
         IF x.thrown # Null
         THEN \* revalidatePath(path) throws: the catch block answers
              [calls |-> <<Call("revalidatePath", path)>>,
               resp  |-> Json(500, [revalidated |-> "false", error |-> x.thrown])]
         ELSE [calls |-> <<Call("revalidatePath", path)>>,
               resp  |-> Json(200, [revalidated |-> "true", path |-> path])]

(***************************************************************************)
(* The pages-API handler, src/pages/api/revalidate.ts                      *)
(***************************************************************************)

pages_handler(r, e, x) ==
    IF r.secret # e.REVALIDATION_SECRET
    THEN [calls |-> <<>>, resp |-> Json(401, [message |-> "Invalid token"])]
    ELSE IF ~Truthy(r.path)
    THEN [calls |-> <<>>, resp |-> Json(400, [message |-> "Path is required"])]
    ELSE IF x.thrown # Null
    THEN [calls |-> <<Call("res.revalidate", r.path)>>,
          resp  |-> Json(500, [message |-> "Error revalidating", error |-> x.thrown])]
    ELSE [calls |-> <<Call("res.revalidate", r.path)>>,
          resp  |-> Json(200, [revalidated |-> "true", path |-> r.path])]

(***************************************************************************)
(* Requests and environments of the revalidation endpoints                 *)
(***************************************************************************)

Secrets == {Null, "", "s3cret", "wrong"}

SecretConfigs == {Null, "", "s3cret"}

Paths == {Null, "", "/", "/news"} \cup {"/news/" \o s : s \in Slugs}

RevalidateRequests == [secret : Secrets, path : Paths]

\* appendFails: fs.appendFileSync on the log file throws in this invocation;
\* thrown: the error revalidatePath / res.revalidate throws, Null when it returns.
RevalidateIo == [appendFails : BOOLEAN, thrown : {Null, ThrownMessage}]

PagesIo == [thrown : {Null, ThrownMessage}]

Init ==
    /\ env \in [REVALIDATION_SECRET : SecretConfigs,
                WEBHOOK_TOKEN : {Null}, NODE_ENV : {"production"}]
    /\ handler = "none"
    /\ req = NoReq
    /\ io = NoIo
    /\ calls = <<>>
    /\ resp = NoResp
    /\ logs = NoLogs
    /\ inflight = NoneInFlight
    /\ pending = NonePending
    /\ disk = NoDisk

\* One invocation of GET /api/revalidate.
RevalidateGET ==
    /\ handler = "none"
    /\ \E r \in RevalidateRequests, x \in RevalidateIo :
         LET out == GET_revalidate(r, env, x) IN
         /\ req' = r
         /\ io' = x
         /\ calls' = out.calls
         /\ resp' = out.resp
    /\ handler' = "GET /api/revalidate"
    /\ UNCHANGED <<env, disk, logs, inflight, pending>>

\* One invocation of the pages-API handler.
PagesRevalidate ==
    /\ handler = "none"
    /\ \E r \in RevalidateRequests, x \in PagesIo :
         LET out == pages_handler(r, env, x) IN
         /\ req' = r
         /\ io' = x
         /\ calls' = out.calls
         /\ resp' = out.resp
    /\ handler' = "pages/api/revalidate"
    /\ UNCHANGED <<env, disk, logs, inflight, pending>>

\* The invocation is over: nothing of it is kept, the next request starts
\* from the same process state.
EndInvocation ==
    /\ handler # "none"
    /\ handler' = "none"
    /\ req' = NoReq
    /\ io' = NoIo
    /\ calls' = <<>>
    /\ resp' = NoResp
    /\ UNCHANGED <<env, disk, logs, inflight, pending>>

Next == RevalidateGET \/ PagesRevalidate \/ EndInvocation

Spec == Init /\ [][Next]_vars

(***************************************************************************)
(* POST and GET /api/webhook                                               *)
(***************************************************************************)

\* log of the webhook route: appendFileSync with no try/catch, so a failed
\* append throws out of log.
log_webhook(appendFails) ==
    IF appendFails THEN "thrown" ELSE "appended"

\* The token read from the query parameter before the headers.
ReceivedToken_query_first(r) ==
    IF Truthy(r.queryToken) THEN r.queryToken
    ELSE IF Truthy(r.xWebhookToken) THEN r.xWebhookToken
    ELSE IF Truthy(r.webhookToken) THEN r.webhookToken
    ELSE r.xStrapiWebhookToken

\* const token = h['x-webhook-token'] || h['webhook-token'] ||
\*               h['x-strapi-webhook-token'] || searchParams.get('token')
ReceivedToken(r) ==
    IF Truthy(r.xWebhookToken) THEN r.xWebhookToken
    ELSE IF Truthy(r.webhookToken) THEN r.webhookToken
    ELSE IF Truthy(r.xStrapiWebhookToken) THEN r.xStrapiWebhookToken
    ELSE r.queryToken

\* validateWebhook with the development bypass tested before the check that
\* WEBHOOK_TOKEN is configured.
validateWebhook_dev_first(r, e) ==
    LET token == IF Truthy(r.xWebhookToken) THEN r.xWebhookToken
                 ELSE IF Truthy(r.webhookToken) THEN r.webhookToken
                 ELSE IF Truthy(r.xStrapiWebhookToken) THEN r.xStrapiWebhookToken
                 ELSE r.queryToken
        expectedToken == e.WEBHOOK_TOKEN
    IN  IF e.NODE_ENV = "development" /\ ~Truthy(token) THEN TRUE
        ELSE IF ~Truthy(expectedToken) THEN FALSE
        ELSE token = expectedToken

\* validateWebhook with the development bypass not limited to requests
\* without a token.
validateWebhook_dev_accepts_all(r, e) ==
    LET token == ReceivedToken(r)
        expectedToken == e.WEBHOOK_TOKEN
    IN  IF ~Truthy(expectedToken) THEN FALSE
        ELSE IF e.NODE_ENV = "development" THEN TRUE
        ELSE token = expectedToken

validateWebhook(r, e) ==
    LET token == ReceivedToken(r)
        expectedToken == e.WEBHOOK_TOKEN
    IN  IF ~Truthy(expectedToken) THEN FALSE
        ELSE IF e.NODE_ENV = "development" /\ ~Truthy(token) THEN TRUE
        ELSE IF token # expectedToken THEN FALSE
        ELSE TRUE

\* let body = {} when the first read fails; Object.keys(body).length === 0
BodyIsEmpty(b) ==
    \/ b.kind = "unreadable"
    \/ b.kind = "object" /\ b.event = Null /\ b.model = Null /\ b.slug = Null

\* if (body.entry && body.entry.slug) articleSlug = body.entry.slug
ArticleSlug(b) == IF b.kind = "object" /\ Truthy(b.slug) THEN b.slug ELSE ""

\* The base invalidations without the 'home' tag.
BaseInvalidations_no_home ==
    << Call("revalidatePath", "/"), Call("revalidatePath", "/news"),
       Call("revalidateTag", "articles") >>

\* revalidatePath('/'); revalidatePath('/news');
\* revalidateTag('articles'); revalidateTag('home')
BaseInvalidations ==
    << Call("revalidatePath", "/"), Call("revalidatePath", "/news"),
       Call("revalidateTag", "articles"), Call("revalidateTag", "home") >>

\* if (articleSlug) { revalidatePath(`/news/${slug}`); revalidateTag(`article-${slug}`) }
SlugInvalidations(articleSlug) ==
    IF Truthy(articleSlug)
    THEN << Call("revalidatePath", "/news/" \o articleSlug),
            Call("revalidateTag", "article-" \o articleSlug) >>
    ELSE << >>

\* The paths list without the article's own path.
ResponsePaths_no_article(articleSlug) == << "/", "/news" >>

\* paths: articleSlug ? ['/', '/news', `/news/${articleSlug}`] : ['/', '/news']
ResponsePaths(articleSlug) ==
    IF Truthy(articleSlug)
    THEN << "/", "/news", "/news/" \o articleSlug >>
    ELSE << "/", "/news" >>

\* The event check with entry.delete among the events that revalidate.
IsRevalidationEvent_with_delete(event, model) ==
    /\ event \in {"entry.create", "entry.update", "entry.publish",
                  "entry.unpublish", "entry.delete"}
    /\ model \in {"article", "articles"}

\* The event check without the model.
IsRevalidationEvent_any_model(event, model) ==
    event \in {"entry.create", "entry.update", "entry.publish", "entry.unpublish"}

\* (event === 'entry.create' || ... || event === 'entry.unpublish') &&
\* (model === 'article' || model === 'articles')
IsRevalidationEvent(event, model) ==
    /\ event \in {"entry.create", "entry.update", "entry.publish", "entry.unpublish"}
    /\ model \in {"article", "articles"}

\* The 500 response carrying the revalidated flag.
InternalError_revalidated(details) ==
    [status |-> 500, error |-> "Error interno del servidor", details |-> details,
     revalidated |-> "true", success |-> "<null>", path |-> "<null>",
     paths |-> <<>>, message |-> "<null>"]

\* catch (error): the 500 response of POST.
InternalError(details) ==
    Json(500, [error |-> "Error interno del servidor", details |-> details])

\* The invalidation calls with no stop at the call that throws.
Invalidate_goes_on(todo, x, ok) ==
    IF x.throwAt \in 1..Len(todo)
    THEN [calls |-> todo,
          resp  |-> [status |-> 500, error |-> "Error interno del servidor",
                     details |-> "boom", revalidated |-> "<null>",
                     success |-> "<null>", path |-> "<null>", paths |-> <<>>,
                     message |-> "<null>"]]
    ELSE [calls |-> todo, resp |-> ok]

\* Runs the invalidation calls in order inside POST's try block.  When the
\* call number x.throwAt throws, the calls after it are not made and the
\* catch block answers 500; otherwise `ok` is returned.
Invalidate(todo, x, ok) ==
    IF x.throwAt \in 1..Len(todo)
    THEN [calls |-> SubSeq(todo, 1, x.throwAt), resp |-> InternalError(ThrownMessage)]
    ELSE [calls |-> todo, resp |-> ok]

\* The second read's failure answered like an event that needs no revalidation.
UnreadableBody_ignored(e, x) ==
    [calls |-> <<>>,
     resp  |-> Json(200, [success |-> "true",
                  message |-> "Evento recibido pero no requiere revalidacion"])]

\* catch (bodyError) of the second read
UnreadableBody(e, x) ==
    IF e.NODE_ENV = "development"
    THEN Invalidate(BaseInvalidations, x,
            Json(200, [success |-> "true", revalidated |-> "true",
                 message |-> "Paginas revalidadas (modo desarrollo, sin cuerpo)"]))
    ELSE [calls |-> <<>>,
          resp  |-> Json(400, [error |-> "No se pudo leer el cuerpo de la solicitud",
                               details |-> "bodyError"])]

\* The handler from the event check on, for a body that was read.
HandleEvent(b, e, x) ==
    LET event == b.event
        model == b.model
        articleSlug == ArticleSlug(b)
    IN  IF e.NODE_ENV = "development"
        THEN Invalidate(BaseInvalidations \o SlugInvalidations(articleSlug), x,
                Json(200, [success |-> "true", revalidated |-> "true",
                     message |-> "Paginas revalidadas (modo desarrollo)"]))
        ELSE IF IsRevalidationEvent(event, model)
        THEN Invalidate(BaseInvalidations \o SlugInvalidations(articleSlug), x,
                Json(200, [success |-> "true", revalidated |-> "true",
                     message |-> "Paginas revalidadas exitosamente",
                     paths |-> ResponsePaths(articleSlug)]))
        ELSE [calls |-> <<>>,
              resp  |-> Json(200, [success |-> "true",
                           message |-> "Evento recibido pero no requiere revalidacion"])]

\* The whole POST handler: the calls it makes and the response it returns.
POST_webhook(r, e, x) ==
    IF log_webhook(x.appendFails) = "thrown"
    THEN \* lines 77-79 are outside the try block
         [calls |-> <<>>, resp |-> Uncaught]
    ELSE IF ~validateWebhook(r, e)
    THEN [calls |-> <<>>, resp |-> Json(401, [error |-> "Token invalido"])]
    ELSE IF r.body.kind = "null"
    THEN \* Object.keys(null) throws a TypeError inside the try block
         [calls |-> <<>>,
          resp  |-> InternalError("Cannot convert undefined or null to object")]
    ELSE IF BodyIsEmpty(r.body)
    THEN \* the second read, request.json()
         IF r.body.kind = "unreadable"
         THEN UnreadableBody(e, x)
         ELSE HandleEvent(r.body, e, x)
    ELSE HandleEvent(r.body, e, x)

\* The whole GET handler (the test endpoint): it has no try block.
GET_webhook(r, e, x) ==
    IF log_webhook(x.appendFails) = "thrown"
    THEN [calls |-> <<>>, resp |-> Uncaught]
    ELSE IF ~validateWebhook(r, e)
    THEN [calls |-> <<>>, resp |-> Json(401, [error |-> "Token invalido"])]
    ELSE [calls |-> <<>>,
          resp  |-> Json(200, [success |-> "true",
                       message |-> "Webhook configurado correctamente"])]

(***************************************************************************)
(* Requests and environments of the webhook                                *)
(***************************************************************************)

Tokens == {Null, "t0k3n", "bad"}

Events == {Null, "entry.create", "entry.update", "entry.publish",
           "entry.unpublish", "entry.delete"}

Models == {Null, "article", "articles", "category"}

\* The JSON bodies: one that does not parse, the JSON value null, and the
\* objects {event, model, entry: {slug}} with each key present or not.
Bodies ==
    [kind : {"object"}, event : Events, model : Models, slug : {Null} \cup Slugs]
    \cup [kind : {"unreadable", "null"}, event : {Null}, model : {Null}, slug : {Null}]

WebhookHeaders ==
    [xWebhookToken : Tokens, webhookToken : Tokens,
     xStrapiWebhookToken : Tokens, queryToken : Tokens]

WebhookRequests ==
    { h @@ [body |-> b] : h \in WebhookHeaders, b \in Bodies }

\* The most invalidation calls one invocation makes.
MaxInvalidations == Len(BaseInvalidations \o SlugInvalidations("s"))

\* appendFails: fs.appendFileSync on the log file throws in this invocation;
\* throwAt: the number of the invalidation call that throws, 0 for none.
WebhookIo ==
    [appendFails : {FALSE}, throwAt : 0..MaxInvalidations]
    \cup [appendFails : {TRUE}, throwAt : {0}]

InitWebhook ==
    /\ env \in [REVALIDATION_SECRET : {Null},
                WEBHOOK_TOKEN : {Null, "t0k3n"},
                NODE_ENV : {"development", "production"}]
    /\ handler = "none"
    /\ req = NoReq
    /\ io = NoIo
    /\ calls = <<>>
    /\ resp = NoResp
    /\ logs = NoLogs
    /\ inflight = NoneInFlight
    /\ pending = NonePending
    /\ disk = NoDisk

\* One invocation of POST /api/webhook.
WebhookPOST ==
    /\ handler = "none"
    /\ \E r \in WebhookRequests, x \in WebhookIo :
         LET out == POST_webhook(r, env, x) IN
         /\ req' = r
         /\ io' = x
         /\ calls' = out.calls
         /\ resp' = out.resp
    /\ handler' = "POST /api/webhook"
    /\ UNCHANGED <<env, disk, logs, inflight, pending>>

\* One invocation of GET /api/webhook.
WebhookGET ==
    /\ handler = "none"
    /\ \E r \in WebhookHeaders, a \in BOOLEAN :
         LET x == [appendFails |-> a, throwAt |-> 0]
             out == GET_webhook(r, env, x) IN
         /\ req' = r
         /\ io' = x
         /\ calls' = out.calls
         /\ resp' = out.resp
    /\ handler' = "GET /api/webhook"
    /\ UNCHANGED <<env, disk, logs, inflight, pending>>

NextWebhook == WebhookPOST \/ WebhookGET \/ EndInvocation

SpecWebhook == InitWebhook /\ [][NextWebhook]_vars

(***************************************************************************)
(* Claims about the revalidation endpoints (specification Spec)            *)
(***************************************************************************)

InRevalidateGET == handler = "GET /api/revalidate"

InPagesHandler == handler = "pages/api/revalidate"

\* The request's secret is the configured, non-empty REVALIDATION_SECRET.
SecretMatches == Truthy(env.REVALIDATION_SECRET) /\ req.secret = env.REVALIDATION_SECRET

\* C1: GET /api/revalidate answers every request whose secret is missing,
\* empty or different from the configured REVALIDATION_SECRET, and every
\* request when REVALIDATION_SECRET is not configured, with 401; it does not
\* call revalidatePath and the response does not carry revalidated:true.
C1_InvalidSecretRejected ==
    (InRevalidateGET /\ ~SecretMatches)
        => /\ resp.status = 401
           /\ calls = <<>>
           /\ resp.revalidated # "true"

C1_Witness ==
    /\ InRevalidateGET
    /\ env.REVALIDATION_SECRET = "s3cret"
    /\ req.secret = "wrong"
    /\ req.path = "/news"
    /\ resp.status = 401

\* C3 as stated: with the configured secret and a path parameter p the
\* handler calls revalidatePath(p) exactly once and answers revalidated:true
\* with path p.
C3_Original ==
    (InRevalidateGET /\ SecretMatches /\ Truthy(req.path))
        => /\ calls = <<Call("revalidatePath", req.path)>>
           /\ resp.revalidated = "true"
           /\ resp.path = req.path

\* C3 amended: with the configured secret and a non-empty path parameter p
\* the handler calls revalidatePath(p) exactly once; when that call returns
\* the response is 200 with revalidated:true and path p, and when it throws
\* the response is 500 with revalidated:false and no path.
C3_ValidSecretRevalidatesPath ==
    (InRevalidateGET /\ SecretMatches /\ Truthy(req.path))
        => /\ calls = <<Call("revalidatePath", req.path)>>
           /\ io.thrown = Null =>
                /\ resp.status = 200
                /\ resp.revalidated = "true"
                /\ resp.path = req.path
           /\ io.thrown # Null =>
                /\ resp.status = 500
                /\ resp.revalidated = "false"
                /\ resp.path = Null

C3_Witness ==
    /\ InRevalidateGET
    /\ SecretMatches
    /\ req.path = "/news/s1"
    /\ resp.revalidated = "true"
    /\ resp.path = "/news/s1"
    /\ calls = <<Call("revalidatePath", "/news/s1")>>

\* C7 as stated: a request with a valid secret and no path parameter gets an
\* error response and revalidatePath is not called.
C7_Original ==
    (InRevalidateGET /\ SecretMatches /\ req.path = Null)
        => /\ resp.status >= 400
           /\ calls = <<>>

\* C7 amended: a request with a valid secret and no (or an empty) path
\* parameter is not rejected: the path defaults to "/", revalidatePath("/")
\* is called exactly once, and the response is 200 with revalidated:true and
\* path "/" unless that call throws (then 500 with revalidated:false).
C7_MissingPathDefaultsToRoot ==
    (InRevalidateGET /\ SecretMatches /\ ~Truthy(req.path))
        => /\ calls = <<Call("revalidatePath", "/")>>
           /\ io.thrown = Null =>
                /\ resp.status = 200
                /\ resp.revalidated = "true"
                /\ resp.path = "/"
           /\ io.thrown # Null =>
                /\ resp.status = 500
                /\ resp.revalidated = "false"

C7_Witness ==
    /\ InRevalidateGET
    /\ SecretMatches
    /\ req.path = Null
    /\ resp.status = 200
    /\ resp.path = "/"
    /\ calls = <<Call("revalidatePath", "/")>>

\* C8: GET /api/revalidate always returns a response (no exception leaves
\* the handler, whether the log append fails or revalidatePath throws), and
\* when revalidatePath throws the response is 500 with revalidated:false
\* and the thrown error's message.
C8_ExceptionsCaught ==
    InRevalidateGET
        => /\ resp.status \in {200, 401, 500}
           /\ (calls # <<>> /\ io.thrown # Null) =>
                /\ resp.status = 500
                /\ resp.revalidated = "false"
                /\ resp.error = io.thrown
           /\ resp.status = 500 => (calls # <<>> /\ io.thrown # Null)

C8_Witness ==
    /\ InRevalidateGET
    /\ io.appendFails
    /\ io.thrown = ThrownMessage
    /\ calls = <<Call("revalidatePath", "/news")>>
    /\ resp.status = 500
    /\ resp.error = ThrownMessage

\* C10 as stated: the pages-API handler answers 401 and never calls
\* res.revalidate for every request whose secret is missing or differs from
\* the configured secret, and for every request when REVALIDATION_SECRET is
\* not configured.
C10_PagesUnauthorizedRejected ==
    (InPagesHandler /\ (req.secret = Null \/ req.secret # env.REVALIDATION_SECRET
                         \/ env.REVALIDATION_SECRET = Null))
        => /\ resp.status = 401
           /\ calls = <<>>

(***************************************************************************)
(* Claims about the webhook (specification SpecWebhook)                    *)
(***************************************************************************)

InWebhookPOST == handler = "POST /api/webhook"

Development == env.NODE_ENV = "development"

\* The four places a request may carry a token, in the order they are read.
TokenSources ==
    << req.xWebhookToken, req.webhookToken, req.xStrapiWebhookToken, req.queryToken >>

\* Some header or the query parameter holds the configured WEBHOOK_TOKEN.
CarriesMatchingToken ==
    /\ Truthy(env.WEBHOOK_TOKEN)
    /\ \E i \in 1..4 : TokenSources[i] = env.WEBHOOK_TOKEN

CarriesNoToken == \A i \in 1..4 : ~Truthy(TokenSources[i])

\* The first non-empty token of the request is the configured WEBHOOK_TOKEN.
FirstTokenMatches ==
    /\ Truthy(env.WEBHOOK_TOKEN)
    /\ \E i \in 1..4 :
         /\ TokenSources[i] = env.WEBHOOK_TOKEN
         /\ \A j \in 1..(i - 1) : ~Truthy(TokenSources[j])

\* The requests the handler lets through.
Authorized ==
    \/ FirstTokenMatches
    \/ Truthy(env.WEBHOOK_TOKEN) /\ Development /\ CarriesNoToken

\* Every external call of the invocation returns.
NoFault == ~io.appendFails /\ io.throwAt = 0

Includes(list, x) == \E i \in 1..Len(list) : list[i] = x

PublishedArticle ==
    /\ req.body.kind = "object"
    /\ req.body.event = "entry.publish"
    /\ req.body.model = "article"
    /\ req.body.slug \in Slugs

\* C4 as stated (for the invocations in which no external call throws): the
\* response to an accepted entry.publish of article x carries a paths list
\* that includes "/", "/news" and "/news/x".
C4_Original ==
    (InWebhookPOST /\ Authorized /\ PublishedArticle /\ NoFault)
        => /\ Includes(resp.paths, "/")
           /\ Includes(resp.paths, "/news")
           /\ Includes(resp.paths, "/news/" \o req.body.slug)

\* C4 amended: when NODE_ENV is not development, every success response to
\* an accepted entry.publish of article x carries a paths list that includes
\* "/", "/news" and "/news/x", and the response is a success whenever no
\* external call throws; in development the handler invalidates these three
\* paths but its response carries no paths list.
C4_PublishResponsePaths ==
    (InWebhookPOST /\ Authorized /\ PublishedArticle)
        => /\ (~Development /\ resp.status = 200) =>
                /\ Includes(resp.paths, "/")
                /\ Includes(resp.paths, "/news")
                /\ Includes(resp.paths, "/news/" \o req.body.slug)
           /\ NoFault => resp.status = 200 /\ resp.revalidated = "true"
           /\ (Development /\ NoFault) =>
                /\ resp.paths = <<>>
                /\ Includes(calls, Call("revalidatePath", "/"))
                /\ Includes(calls, Call("revalidatePath", "/news"))
                /\ Includes(calls, Call("revalidatePath", "/news/" \o req.body.slug))

C4_Witness ==
    /\ InWebhookPOST
    /\ ~Development
    /\ PublishedArticle
    /\ req.body.slug = "s1"
    /\ resp.status = 200
    /\ resp.paths = << "/", "/news", "/news/s1" >>

\* The body is an object whose model is not an article model.
OtherModel ==
    /\ req.body.kind = "object"
    /\ req.body.model \notin {"article", "articles"}

\* C5 as stated (for the invocations whose log append works): an accepted
\* POST whose body names a model other than article/articles is answered
\* with success and makes no invalidation call, whatever the event and
\* NODE_ENV are.
C5_Original ==
    (InWebhookPOST /\ Authorized /\ OtherModel /\ req.body.model # Null
       /\ ~io.appendFails)
        => /\ resp.success = "true"
           /\ calls = <<>>

\* C5 amended: when NODE_ENV is not development, an accepted POST whose body
\* names no article model makes no invalidation call, whatever the event,
\* and is answered 200 with success and without revalidated (unless the log
\* append throws); in development the model is not looked at and the
\* handler invalidates as for an article.
C5_OtherModelNotInvalidated ==
    (InWebhookPOST /\ Authorized /\ OtherModel)
        => /\ ~Development =>
                /\ calls = <<>>
                /\ ~io.appendFails =>
                     /\ resp.status = 200
                     /\ resp.success = "true"
                     /\ resp.revalidated = Null
           /\ (Development /\ NoFault) =>
                /\ Len(calls) >= 4
                /\ resp.revalidated = "true"

C5_Witness ==
    /\ InWebhookPOST
    /\ ~Development
    /\ FirstTokenMatches
    /\ req.body.kind = "object"
    /\ req.body.model = "category"
    /\ req.body.event = "entry.publish"
    /\ resp.status = 200
    /\ resp.success = "true"
    /\ calls = <<>>

\* The slug the body gives, "" when it gives none.
GivenSlug ==
    IF req.body.kind = "object" /\ req.body.slug \in Slugs THEN req.body.slug ELSE ""

\* The invalidations the claim lists for slug s ("" for no slug).
ListedInvalidations(s) ==
    IF s = ""
    THEN << [fn |-> "revalidatePath", arg |-> "/"],
            [fn |-> "revalidatePath", arg |-> "/news"],
            [fn |-> "revalidateTag", arg |-> "articles"],
            [fn |-> "revalidateTag", arg |-> "home"] >>
    ELSE << [fn |-> "revalidatePath", arg |-> "/"],
            [fn |-> "revalidatePath", arg |-> "/news"],
            [fn |-> "revalidateTag", arg |-> "articles"],
            [fn |-> "revalidateTag", arg |-> "home"],
            [fn |-> "revalidatePath", arg |-> "/news/" \o s],
            [fn |-> "revalidateTag", arg |-> "article-" \o s] >>

File(dir, base, ext) == [dir |-> dir, base |-> base, ext |-> ext]

RECURSIVE SeqOfSlugs(_)
\* The slugs s1 .. sn, in order.
SeqOfSlugs(n) ==
    IF n = 0 THEN <<>> ELSE Append(SeqOfSlugs(n - 1), "s" \o ToString(n))

\* The files an exported output directory may hold, in the order a walk
\* meets them (the order in which fs.readdirSync lists the names).
Universe ==
    << File(<<"_next", "static">>, "app", "js"),
       File(<<"images">>, "logo", "png"),
       File(<<>>, "index", "html"),
       File(<<>>, "logo", "png"),
       File(<<"news">>, "index", "html") >>
    \o [i \in 1..MaxSlug |-> File(<<"news", SeqOfSlugs(MaxSlug)[i]>>, "index", "html")]
    \o << File(<<>>, "robots", "txt") >>

RECURSIVE JoinSegments(_)
\* The segments joined with "/".
JoinSegments(segs) ==
    IF segs = <<>> THEN ""
    ELSE IF Len(segs) = 1 THEN segs[1]
    ELSE segs[1] \o "/" \o JoinSegments(Tail(segs))

\* path.relative(OUT_DIR, filePath) of a file
RelativePath(f) == JoinSegments(f.dir \o << f.base \o "." \o f.ext >>)

\* The key without the prefix.
S3Key_no_prefix(prefix, relativePath) == relativePath

\* path.join(S3_PREFIX, relativePath).replace(/\\/g, '/'), S3_PREFIX being
\* process.env.AWS_S3_PREFIX || ''
S3Key(prefix, relativePath) ==
    IF ~Truthy(prefix) THEN relativePath ELSE prefix \o "/" \o relativePath

\* mime.lookup(filePath) || 'application/octet-stream'
ContentType(ext) ==
    CASE ext = "html" -> [major |-> "text", minor |-> "html"]
      [] ext = "css"  -> [major |-> "text", minor |-> "css"]
      [] ext = "txt"  -> [major |-> "text", minor |-> "plain"]
      [] ext = "js"   -> [major |-> "application", minor |-> "javascript"]
      [] ext = "png"  -> [major |-> "image", minor |-> "png"]
      [] ext = "jpg"  -> [major |-> "image", minor |-> "jpeg"]
      [] ext = "svg"  -> [major |-> "image", minor |-> "svg+xml"]
      [] OTHER        -> [major |-> "application", minor |-> "octet-stream"]

\* The policy with the two special cases tested in the other order of
\* importance: HTML treated like any other file.
CacheControl_html_as_other(contentType) ==
    IF contentType.major = "image"
    THEN "public, max-age=31536000, immutable"
    ELSE "public, max-age=604800"

\* uploadFileToS3: contentType.includes('image/') ? ... :
\*                 contentType.includes('text/html') ? ... : ...
CacheControl(contentType) ==
    IF contentType.major = "image"
    THEN "public, max-age=31536000, immutable"
    ELSE IF contentType.major = "text" /\ contentType.minor = "html"
    THEN "public, max-age=0, must-revalidate"
    ELSE "public, max-age=604800"

\* uploadDirectoryToS3 of the JavaScript variant: metadata.CacheControl
MetadataCacheControl(contentType) ==
    IF contentType.major = "text" /\ contentType.minor = "html"
    THEN "max-age=300"
    ELSE IF contentType.major = "image"
    THEN "max-age=86400"
    ELSE "max-age=31536000"

\* The Upload parameters of uploadFileToS3(filePath, s3Key) of upload-to-s3.ts.
UploadParamsTs(f, e) ==
    [file |-> f,
     Key |-> S3Key(e.AWS_S3_PREFIX, RelativePath(f)),
     ContentType |-> ContentType(f.ext),
     CacheControl |-> CacheControl(ContentType(f.ext))]

\* The Upload parameters of uploadFileToS3(filePath, s3Key, metadata) of the
\* JavaScript variant: metadata.CacheControl || (the policy of the file type).
UploadParamsJs(f, e) ==
    LET contentType == ContentType(f.ext)
        metadata == [ContentType |-> contentType,
                     CacheControl |-> MetadataCacheControl(contentType)]
    IN  [file |-> f,
         Key |-> S3Key(e.AWS_S3_PREFIX, RelativePath(f)),
         ContentType |-> metadata.ContentType,
         CacheControl |-> IF Truthy(metadata.CacheControl)
                          THEN metadata.CacheControl
                          ELSE CacheControl(contentType)]

\* name.startsWith('_')
StartsWithUnderscore(name) == name \in {"_next", "_data"}

\* isNewsArticle, for the relative path given as its segments
IsNewsArticle(rel) ==
    /\ Len(rel) >= 2 /\ rel[1] = "news"
    /\ ~StartsWithUnderscore(rel[2])

\* isStaticAsset, for the relative path given as its segments and the
\* extension of its last segment ("" for a directory)
IsStaticAsset(rel, ext) ==
    \/ Len(rel) >= 2 /\ rel[1] = "_next"
    \/ Len(rel) >= 2 /\ rel[1] = "static"
    \/ ext \in {"css", "js", "jpg", "png", "svg"}

\* const onlyNews = process.env.ONLY_NEWS === 'true' || true
OnlyNews(e) == (e.ONLY_NEWS = "true") \/ TRUE

\* shouldProcess = !onlyNews || isNewsArticle || isStaticAsset
ShouldProcess(onlyNews, rel, ext) ==
    ~onlyNews \/ IsNewsArticle(rel) \/ IsStaticAsset(rel, ext)

\* The indices of idxs that lie under directory dir.
Under(dir, idxs) ==
    SelectSeq(idxs, LAMBDA i :
        /\ Len(Universe[i].dir) >= Len(dir)
        /\ SubSeq(Universe[i].dir, 1, Len(dir)) = dir)

RECURSIVE WalkTs(_, _)
\* uploadDirectoryToS3(directory) of upload-to-s3.ts: the files it uploads,
\* in order.  idxs are the files under the directory, as indices in Universe.
WalkTs(dir, idxs) ==
    IF idxs = <<>> THEN <<>>
    ELSE LET f == Universe[Head(idxs)] IN
         IF Len(f.dir) = Len(dir)
         THEN \* a file of this directory
              << Head(idxs) >> \o WalkTs(dir, Tail(idxs))
         ELSE \* a subdirectory: its content, then the entries after it
              LET sub == Append(dir, f.dir[Len(dir) + 1])
                  inside == Under(sub, idxs)
                  after == SelectSeq(idxs, LAMBDA i : i \notin {inside[k] : k \in 1..Len(inside)})
              IN  WalkTs(sub, inside) \o WalkTs(dir, after)

RECURSIVE WalkJs(_, _, _)
\* uploadDirectoryToS3(directory, baseS3Path, onlyNews) of the JavaScript
\* variant.
WalkJs(dir, idxs, onlyNews) ==
    IF idxs = <<>> THEN <<>>
    ELSE LET f == Universe[Head(idxs)] IN
         IF Len(f.dir) = Len(dir)
         THEN \* a file of this directory
              (IF ShouldProcess(onlyNews, Append(dir, f.base \o "." \o f.ext), f.ext)
               THEN << Head(idxs) >> ELSE << >>)
              \o WalkJs(dir, Tail(idxs), onlyNews)
         ELSE LET dirName == f.dir[Len(dir) + 1]
                  sub == Append(dir, dirName)
                  inside == Under(sub, idxs)
                  after == SelectSeq(idxs, LAMBDA i : i \notin {inside[k] : k \in 1..Len(inside)})
              IN  (IF \/ ShouldProcess(onlyNews, sub, "")
                      \/ dirName \in {"news", "_next", "static"}
                   THEN WalkJs(sub, inside, onlyNews) ELSE << >>)
                  \o WalkJs(dir, after, onlyNews)

\* The uploads with a failed upload skipped and the walk going on.
RunUploads_continue(plan, x) ==
    [calls |-> plan, exit |-> IF x.failAt \in 1..Len(plan) THEN 1 ELSE 0]

\* The uploads of one run.  uploadFileToS3 logs a failed upload and throws
\* it again; uploadDirectoryToS3 does not catch, so the walk ends there and
\* main's catch calls process.exit(1).
RunUploads(plan, x) ==
    IF x.failAt \in 1..Len(plan)
    THEN [calls |-> SubSeq(plan, 1, x.failAt), exit |-> 1]
    ELSE [calls |-> plan, exit |-> 0]

\* main of upload-to-s3.ts.  outDir: whether the output directory exists and
\* the files it holds, as ascending indices in Universe.
main_upload_ts(outDir, e, x) ==
    IF ~Truthy(e.AWS_S3_BUCKET) THEN [calls |-> <<>>, exit |-> 1]
    ELSE IF ~outDir.exists THEN [calls |-> <<>>, exit |-> 1]
    ELSE LET walk == WalkTs(<<>>, outDir.files) IN
         RunUploads([k \in 1..Len(walk) |-> UploadParamsTs(Universe[walk[k]], e)], x)

\* main of the JavaScript variant.  Its log appends to a file with no
\* try/catch: when the append throws, main rejects at its first statement.
main_upload_js(outDir, e, x) ==
    IF x.appendFails THEN [calls |-> <<>>, exit |-> 1]
    ELSE IF ~Truthy(e.AWS_S3_BUCKET) THEN [calls |-> <<>>, exit |-> 1]
    ELSE IF ~outDir.exists THEN [calls |-> <<>>, exit |-> 1]
    ELSE LET walk == WalkJs(<<>>, outDir.files, OnlyNews(e)) IN
         RunUploads([k \in 1..Len(walk) |-> UploadParamsJs(Universe[walk[k]], e)], x)

RECURSIVE Ascending(_, _)
\* The members of set S that are >= i, in ascending order.
Ascending(S, i) ==
    IF i > Len(Universe) THEN <<>>
    ELSE (IF i \in S THEN <<i>> ELSE <<>>) \o Ascending(S, i + 1)

\* The output directories: missing, or holding any set of the files.
OutDirs ==
    { [exists |-> FALSE, files |-> <<>>] }
    \cup { [exists |-> TRUE, files |-> Ascending(S, 1)] : S \in SUBSET (1..Len(Universe)) }

UploadEnvs ==
    [AWS_S3_BUCKET : {Null, "bucket"}, AWS_S3_PREFIX : {Null, "site"},
     ONLY_NEWS : {Null, "false"}]

\* failAt: the number of the upload whose upload.done() rejects, 0 for none;
\* appendFails: fs.appendFileSync on the log file throws in this run.
UploadIoJs ==
    [appendFails : {FALSE}, failAt : 0..Len(Universe)]
    \cup [appendFails : {TRUE}, failAt : {0}]

\* upload-to-s3.ts writes to the console only.
UploadIoTs == [appendFails : {FALSE}, failAt : 0..Len(Universe)]

InitUpload ==
    /\ env \in UploadEnvs
    /\ handler = "none"
    /\ req = NoReq
    /\ io = NoIo
    /\ calls = <<>>
    /\ resp = NoResp
    /\ logs = NoLogs
    /\ inflight = NoneInFlight
    /\ pending = NonePending
    /\ disk = NoDisk

\* One run of upload-to-s3.ts.
UploadTs ==
    /\ handler = "none"
    /\ \E d \in OutDirs, x \in UploadIoTs :
         LET out == main_upload_ts(d, env, x) IN
         /\ req' = [outDir |-> d]
         /\ io' = x
         /\ calls' = out.calls
         /\ resp' = [exit |-> out.exit]
    /\ handler' = "upload-to-s3.ts"
    /\ UNCHANGED <<env, disk, logs, inflight, pending>>

\* One run of the JavaScript variant.
UploadJs ==
    /\ handler = "none"
    /\ \E d \in OutDirs, x \in UploadIoJs :
         LET out == main_upload_js(d, env, x) IN
         /\ req' = [outDir |-> d]
         /\ io' = x
         /\ calls' = out.calls
         /\ resp' = [exit |-> out.exit]
    /\ handler' = "upload-to-s3.js"
    /\ UNCHANGED <<env, disk, logs, inflight, pending>>

NextUpload == UploadTs \/ UploadJs \/ EndInvocation

SpecUpload == InitUpload /\ [][NextUpload]_vars

(***************************************************************************)
(* Claims about the upload scripts (specification SpecUpload)              *)
(***************************************************************************)

InUploadTs == handler = "upload-to-s3.ts"

InUploadJs == handler = "upload-to-s3.js"

InUpload == InUploadTs \/ InUploadJs

IsHtmlFile(f) == f.ext = "html"

IsImageFile(f) == f.ext \in {"png", "jpg", "svg"}

\* C11 as stated: in both variants every .html file is uploaded with the
\* policy max-age=0, must-revalidate and every image file with the policy
\* max-age=31536000, immutable.
C11_Original ==
    InUpload =>
        \A k \in 1..Len(calls) :
            /\ IsHtmlFile(calls[k].file)
                 => calls[k].CacheControl = "public, max-age=0, must-revalidate"
            /\ IsImageFile(calls[k].file)
                 => calls[k].CacheControl = "public, max-age=31536000, immutable"

\* C11 amended: upload-to-s3.ts uploads every .html file with
\* "public, max-age=0, must-revalidate" and every image file with
\* "public, max-age=31536000, immutable"; the JavaScript variant passes its
\* own metadata, which wins: .html files get "max-age=300" and image files
\* "max-age=86400".
C11_CachePolicyByContentType ==
    /\ InUploadTs =>
        \A k \in 1..Len(calls) :
            /\ IsHtmlFile(calls[k].file)
                 => calls[k].CacheControl = "public, max-age=0, must-revalidate"
            /\ IsImageFile(calls[k].file)
                 => calls[k].CacheControl = "public, max-age=31536000, immutable"
    /\ InUploadJs =>
        \A k \in 1..Len(calls) :
            /\ IsHtmlFile(calls[k].file) => calls[k].CacheControl = "max-age=300"
            /\ IsImageFile(calls[k].file) => calls[k].CacheControl = "max-age=86400"

C11_Witness ==
    /\ InUploadTs
    /\ resp.exit = 0
    /\ \E k \in 1..Len(calls) :
         /\ calls[k].Key = "index.html"
         /\ calls[k].CacheControl = "public, max-age=0, must-revalidate"
    /\ \E k \in 1..Len(calls) :
         /\ calls[k].Key = "images/logo.png"
         /\ calls[k].CacheControl = "public, max-age=31536000, immutable"

\* The files of the output directory.
OutFiles == { Universe[req.outDir.files[k]] : k \in 1..Len(req.outDir.files) }

\* The key the claim gives a file: S3_PREFIX joined with its relative path.
ClaimedKey(f) ==
    IF env.AWS_S3_PREFIX = Null THEN RelativePath(f)
    ELSE env.AWS_S3_PREFIX \o "/" \o RelativePath(f)

\* The uploads of file f.
UploadsOf(f) == { k \in 1..Len(calls) : calls[k].file = f }

Entered(d) ==
    \/ Len(d) >= 2 /\ d[1] = "news" /\ d[2] \notin {"_next", "_data"}
    \/ Len(d) >= 2 /\ d[1] \in {"_next", "static"}
    \/ d[Len(d)] \in {"news", "_next", "static"}

\* The files the JavaScript variant selects: news articles and static
\* assets, in directories the walk enters.
SelectedJs(f) ==
    /\ \/ /\ Len(f.dir) >= 1 /\ f.dir[1] = "news"
          /\ (IF Len(f.dir) >= 2 THEN f.dir[2] ELSE f.base) \notin {"_next", "_data"}
       \/ Len(f.dir) >= 1 /\ f.dir[1] \in {"_next", "static"}
       \/ f.ext \in {"css", "js", "jpg", "png", "svg"}
    /\ \A n \in 1..Len(f.dir) : Entered(SubSeq(f.dir, 1, n))

UploadFailed ==
    /\ InUpload
    /\ io.failAt >= 1
    /\ Len(calls) >= io.failAt

\* C13 as stated: a failed upload of one file does not stop the batch; the
\* files that come after it in the traversal are still attempted.
C13_Original ==
    (InUploadTs /\ UploadFailed)
        => Len(calls) = Len(req.outDir.files)

\* C13 amended: a failed upload of one file stops the batch: the error is
\* logged and thrown again, no file after it in the traversal is attempted,
\* the failed file is not attempted a second time, and the script exits
\* with status 1.
C13_FailedUploadStopsBatch ==
    UploadFailed
        => /\ Len(calls) = io.failAt
           /\ resp.exit = 1
           /\ Cardinality(UploadsOf(calls[io.failAt].file)) = 1
           /\ InUploadTs =>
                \A k \in 1..Len(calls) : calls[k].file = Universe[req.outDir.files[k]]

C13_Witness ==
    /\ InUploadTs
    /\ io.failAt = 1
    /\ Len(req.outDir.files) >= 3
    /\ Len(calls) = 1
    /\ resp.exit = 1

(***************************************************************************)
(* The CMS fetch functions (src/app/lib/api/articles.ts)                   *)
(***************************************************************************)

\* JavaScript null or undefined where an object would otherwise stand.
Nothing == [null |-> TRUE]

\* '/placeholder.jpg'
Placeholder == "/placeholder.jpg"

\* The most items a CMS response list holds.
MaxItems == 2

\* a || b
Or(a, b) == IF Truthy(a) THEN a ELSE b

\* The cover of a CMS item: none, flat ({url}) or nested
\* ({data: {attributes: {url}}}).
NoCover == [shape |-> "none", url |-> Null]

Covers ==
    { NoCover }
    \cup [shape : {"flat"}, url : {"", "/uploads/a.jpg"}]
    \cup [shape : {"nested"}, url : {"/uploads/a.jpg"}]

\* The category of a CMS item: none, flat ({id, name, slug}) or nested
\* ({data: {id, attributes: {name, slug}}}).  Ids are written as strings.
NoCategory == [shape |-> "none", id |-> Null, name |-> Null, slug |-> Null]

Categories ==
    { NoCategory }
    \cup [shape : {"flat", "nested"}, id : {"7"}, name : {"Local"}, slug : {"local"}]

\* The items of a CMS response: the fields at the top level of the item
\* (flat) or under `attributes` (nested).
Items ==
    [shape : {"flat"}, id : {"1"}, title : {"Title"}, description : {"Text"},
     content : {"Body"}, slug : Slugs, publishedAt : {"2024-05-01"},
     cover : Covers, category : Categories]
    \cup
    [shape : {"nested"}, id : {"1"}, title : {"Title"}, description : {"Text"},
     content : {"Body"}, slug : Slugs, publishedAt : {"2024-05-01"},
     cover : { c \in Covers : c.shape # "flat" },
     category : { c \in Categories : c.shape # "flat" }]

\* article.<name> for one of the scalar fields: undefined when the field
\* lies under `attributes`.
Prop(article, name) == IF article.shape = "flat" THEN article[name] ELSE Null

\* article.cover
PropCover(article) == IF article.shape = "flat" THEN article.cover ELSE NoCover

\* article.category
PropCategory(article) ==
    IF article.shape = "flat" THEN article.category ELSE NoCategory

\* article.cover?.url
CoverUrl(cover) == IF cover.shape = "flat" THEN cover.url ELSE Null

\* article.cover?.data?.attributes?.url
CoverDataUrl(cover) == IF cover.shape = "nested" THEN cover.url ELSE Null

\* article.category.<name>: undefined when the category lies under `data`.
CategoryProp(category, name) ==
    IF category.shape = "flat" THEN category[name] ELSE Null

\* new Date(value)
Date(value) == IF value = Null THEN "Invalid Date" ELSE value

\* { id: article.category.id, name: ..., slug: ... }
CategoryFields(category) ==
    [id |-> CategoryProp(category, "id"),
     name |-> CategoryProp(category, "name"),
     slug |-> CategoryProp(category, "slug")]

\* The mapping of fetchArticles.
MapArticle(article) ==
    [id |-> article.id,
     title |-> Prop(article, "title"),
     description |-> Prop(article, "description"),
     slug |-> Prop(article, "slug"),
     content |-> Prop(article, "content"),
     publishedAt |-> Date(Prop(article, "publishedAt")),
     cover |-> [url |-> Or(CoverUrl(PropCover(article)), Placeholder)],
     category |-> IF PropCategory(article).shape # "none"
                  THEN CategoryFields(PropCategory(article))
                  ELSE Nothing]

\* The mapping of fetchArticleBySlug: the category is tested by
\* article.category?.data and read from article.category.
MapArticleBySlug(article) ==
    [id |-> article.id,
     title |-> Prop(article, "title"),
     description |-> Prop(article, "description"),
     content |-> Prop(article, "content"),
     slug |-> Prop(article, "slug"),
     publishedAt |-> Date(Prop(article, "publishedAt")),
     cover |-> [url |-> Or(CoverUrl(PropCover(article)),
                           Or(CoverDataUrl(PropCover(article)), Placeholder))],
     category |-> IF PropCategory(article).shape = "nested"
                  THEN CategoryFields(PropCategory(article))
                  ELSE Nothing]

\* The mapping of fetchRelatedArticles and fetchRecentArticles.
MapRelated(article) ==
    [id |-> article.id,
     title |-> Prop(article, "title"),
     description |-> Prop(article, "description"),
     slug |-> Prop(article, "slug"),
     publishedAt |-> Date(Prop(article, "publishedAt")),
     cover |-> [url |-> Or(CoverUrl(PropCover(article)), Placeholder)]]

\* What the CMS does with one request.  fails: fetch rejects (network
\* error); ok: response.ok; json: response.json() rejects ("unparsable"),
\* or the parsed body has no `data` ("no-data"), a `data` that is an object
\* and no list ("not-a-list"), or a `data` list ("list") holding data.
NetworkError == [fails |-> TRUE, ok |-> FALSE, json |-> "unparsable", data |-> <<>>]

NotOk == [fails |-> FALSE, ok |-> FALSE, json |-> "unparsable", data |-> <<>>]

\* The lists of at most n items.
ItemLists(n) == UNION { [1..k -> Items] : k \in 0..n }

ResponsesWith(lists) ==
    { NetworkError, NotOk }
    \cup [fails : {FALSE}, ok : {TRUE},
          json : {"unparsable", "no-data", "not-a-list"}, data : { <<>> }]
    \cup [fails : {FALSE}, ok : {TRUE}, json : {"list"}, data : lists]

Responses == ResponsesWith(ItemLists(MaxItems))

\* The responses to the two queries of fetchRelatedArticles.
RelatedResponses == ResponsesWith(ItemLists(1))

\* `const data = await response.json()` was reached and gave a value.
HasBody(r) == ~r.fails /\ r.ok /\ r.json # "unparsable"

\* !data.data || data.data.length === 0
NoItems(r) == r.json = "no-data" \/ (r.json = "list" /\ r.data = <<>>)

\* data.data.map(...) taken to throw on an empty list too.
MapThrows_on_empty(r) == r.json # "list" \/ r.data = <<>>

\* data.data.map(...) throws a TypeError: data.data is undefined, or an
\* object without map.
MapThrows(r) == r.json # "list"

\* `${STRAPI_URL}/api/articles?...`
Url(e, query) ==
    Or(e.STRAPI_URL, "http://localhost:1337") \o "/api/articles?" \o query

\* What a call of a fetch function comes to: the requests it made, whether
\* its promise rejected, the value it resolved to, and whether it went
\* through its catch block.
Outcome(fetched, value, caught) ==
    [calls |-> fetched, rejected |-> FALSE, value |-> value, caught |-> caught]

fetchArticles(e, r) ==
    LET fetched == << Call("fetch", Url(e, "populate=*")) >> IN
    IF ~HasBody(r) \/ MapThrows(r) THEN Outcome(fetched, <<>>, TRUE)
    ELSE Outcome(fetched, [k \in 1..Len(r.data) |-> MapArticle(r.data[k])], FALSE)

fetchArticleBySlug(e, slug, r) ==
    LET fetched == << Call("fetch",
                           Url(e, "filters[slug][$eq]=" \o slug \o "&populate=*")) >>
    IN  IF ~HasBody(r) THEN Outcome(fetched, Nothing, TRUE)
        ELSE IF NoItems(r) THEN Outcome(fetched, Nothing, FALSE)
        ELSE IF r.json # "list"
        THEN \* data.data[0] is undefined: reading article.id throws
             Outcome(fetched, Nothing, TRUE)
        ELSE Outcome(fetched, MapArticleBySlug(r.data[1]), FALSE)

fetchAllArticleSlugs(e, r) ==
    LET fetched == << Call("fetch", Url(e, "fields[0]=slug")) >> IN
    IF ~HasBody(r) THEN Outcome(fetched, <<>>, TRUE)
    ELSE IF r.json # "list" THEN Outcome(fetched, <<>>, FALSE)
    ELSE Outcome(fetched, [k \in 1..Len(r.data) |-> Prop(r.data[k], "slug")], FALSE)

RecentQuery(excludeId) ==
    "filters[id][$ne]=" \o excludeId
        \o "&populate=*&sort[0]=publishedAt:desc&pagination[limit]=3"

\* fetchRecentArticles without its try/catch.
fetchRecentArticles_nocatch(e, excludeId, r) ==
    LET fetched == << Call("fetch", Url(e, RecentQuery(excludeId))) >> IN
    IF ~HasBody(r) \/ MapThrows(r)
    THEN [calls |-> fetched, rejected |-> TRUE, value |-> <<>>, caught |-> FALSE]
    ELSE Outcome(fetched, [k \in 1..Len(r.data) |-> MapRelated(r.data[k])], FALSE)

fetchRecentArticles(e, excludeId, r) ==
    LET fetched == << Call("fetch", Url(e, RecentQuery(excludeId))) >> IN
    IF ~HasBody(r) \/ MapThrows(r) THEN Outcome(fetched, <<>>, TRUE)
    ELSE Outcome(fetched, [k \in 1..Len(r.data) |-> MapRelated(r.data[k])], FALSE)

\* fetchRelatedArticles(articleId, categoryId); r answers its own query and
\* r2 the query of fetchRecentArticles.  `return fetchRecentArticles(...)`
\* hands on whatever that promise settles to.
fetchRelatedArticles(e, articleId, categoryId, r, r2) ==
    LET fetched == << Call("fetch",
            Url(e, "filters[id][$ne]=" \o articleId \o "&filters[category][id][$eq]="
                   \o categoryId \o "&populate=*&pagination[limit]=3")) >>
        recent == fetchRecentArticles(e, articleId, r2)
    IN  IF ~Truthy(categoryId) THEN recent
        ELSE IF ~HasBody(r) THEN Outcome(fetched, <<>>, TRUE)
        ELSE IF NoItems(r) THEN [recent EXCEPT !.calls = fetched \o recent.calls]
        ELSE IF MapThrows(r) THEN Outcome(fetched, <<>>, TRUE)
        ELSE Outcome(fetched, [k \in 1..Len(r.data) |-> MapRelated(r.data[k])], FALSE)

FetchEnvs == [STRAPI_URL : {Null, "http://cms:1337"}]

InitFetch ==
    /\ env \in FetchEnvs
    /\ handler = "none"
    /\ req = NoReq
    /\ io = NoIo
    /\ calls = <<>>
    /\ resp = NoResp
    /\ logs = NoLogs
    /\ inflight = NoneInFlight
    /\ pending = NonePending
    /\ disk = NoDisk

\* The response of a settled call.
Settled(out) == [rejected |-> out.rejected, value |-> out.value, caught |-> out.caught]

FetchArticles ==
    /\ handler = "none"
    /\ \E r \in Responses :
         LET out == fetchArticles(env, r) IN
         /\ io' = [first |-> r]
         /\ calls' = out.calls
         /\ resp' = Settled(out)
    /\ req' = NoReq
    /\ handler' = "fetchArticles"
    /\ UNCHANGED <<env, disk, logs, inflight, pending>>

FetchArticleBySlug ==
    /\ handler = "none"
    /\ \E slug \in Slugs, r \in Responses :
         LET out == fetchArticleBySlug(env, slug, r) IN
         /\ req' = [slug |-> slug]
         /\ io' = [first |-> r]
         /\ calls' = out.calls
         /\ resp' = Settled(out)
    /\ handler' = "fetchArticleBySlug"
    /\ UNCHANGED <<env, disk, logs, inflight, pending>>

FetchAllArticleSlugs ==
    /\ handler = "none"
    /\ \E r \in Responses :
         LET out == fetchAllArticleSlugs(env, r) IN
         /\ io' = [first |-> r]
         /\ calls' = out.calls
         /\ resp' = Settled(out)
    /\ req' = NoReq
    /\ handler' = "fetchAllArticleSlugs"
    /\ UNCHANGED <<env, disk, logs, inflight, pending>>

FetchRelatedArticles ==
    /\ handler = "none"
    /\ \E categoryId \in {Null, "7"}, r \in RelatedResponses, r2 \in RelatedResponses :
         LET out == fetchRelatedArticles(env, "1", categoryId, r, r2) IN
         /\ req' = [articleId |-> "1", categoryId |-> categoryId]
         /\ io' = [first |-> r, second |-> r2]
         /\ calls' = out.calls
         /\ resp' = Settled(out)
    /\ handler' = "fetchRelatedArticles"
    /\ UNCHANGED <<env, disk, logs, inflight, pending>>

NextFetch ==
    \/ FetchArticles
    \/ FetchArticleBySlug
    \/ FetchAllArticleSlugs
    \/ FetchRelatedArticles
    \/ EndInvocation

SpecFetch == InitFetch /\ [][NextFetch]_vars

(***************************************************************************)
(* Claims about the CMS fetch functions (specification SpecFetch)          *)
(***************************************************************************)

InFetchArticles == handler = "fetchArticles"

InFetchArticleBySlug == handler = "fetchArticleBySlug"

InFetchAllArticleSlugs == handler = "fetchAllArticleSlugs"

InFetchRelatedArticles == handler = "fetchRelatedArticles"

\* The CMS answered with a `data` list of zero items.
ZeroItems(r) == HasBody(r) /\ r.json = "list" /\ r.data = <<>>

\* C14: given a CMS response whose `data` list has zero items, fetchArticles
\* returns an empty collection, and the mapping does not throw (the catch
\* block is not entered); fetchAllArticleSlugs likewise returns an empty list.
C14_ZeroItemsGiveEmpty ==
    ((InFetchArticles \/ InFetchAllArticleSlugs) /\ ZeroItems(io.first))
        => /\ ~resp.rejected
           /\ ~resp.caught
           /\ resp.value = <<>>

C14_Witness ==
    /\ InFetchArticles
    /\ ZeroItems(io.first)
    /\ Len(calls) = 1
    /\ resp.value = <<>>

\* The failures the claim lists: a network error, a non-OK status, a
\* response without a `data` list.
ListedFailure(r) == r.fails \/ ~r.ok \/ r.json \in {"no-data", "not-a-list"}

\* The same, or a body that cannot be parsed.
AnyFailure(r) == ListedFailure(r) \/ r.json = "unparsable"

\* C15 as stated: no fetch function rejects, and on a network error, a
\* non-OK status or a response without a `data` list fetchArticles,
\* fetchAllArticleSlugs and fetchRelatedArticles return [] and
\* fetchArticleBySlug returns null.
C15_Original ==
    /\ (InFetchArticles \/ InFetchAllArticleSlugs)
         => ~resp.rejected /\ (ListedFailure(io.first) => resp.value = <<>>)
    /\ InFetchArticleBySlug
         => ~resp.rejected /\ (ListedFailure(io.first) => resp.value = Nothing)
    /\ InFetchRelatedArticles
         => /\ ~resp.rejected
            /\ (Truthy(req.categoryId) /\ ListedFailure(io.first)) => resp.value = <<>>

\* fetchRelatedArticles handed the work to fetchRecentArticles.
FellBack ==
    /\ InFetchRelatedArticles
    /\ ~Truthy(req.categoryId) \/ (HasBody(io.first) /\ NoItems(io.first))

\* C15 amended: no fetch function rejects.  On a network error, a non-OK
\* status, an unparsable body or a body without a `data` list, fetchArticles
\* and fetchAllArticleSlugs return [] and fetchArticleBySlug returns null.
\* fetchRelatedArticles returns [] when its own query fails in one of the
\* first three ways or its `data` is no list; when no categoryId is given or
\* its response has no `data` or an empty list, it returns what
\* fetchRecentArticles returns: [] when that query fails in any of these
\* ways, and otherwise the recent articles.
C15_NeverRejectsDefaults ==
    /\ (InFetchArticles \/ InFetchAllArticleSlugs)
         => ~resp.rejected /\ (AnyFailure(io.first) => resp.value = <<>>)
    /\ InFetchArticleBySlug
         => ~resp.rejected /\ (AnyFailure(io.first) => resp.value = Nothing)
    /\ InFetchRelatedArticles
         => /\ ~resp.rejected
            /\ (~FellBack /\ AnyFailure(io.first)) => resp.value = <<>>
            /\ (FellBack /\ AnyFailure(io.second)) => resp.value = <<>>
            /\ (FellBack /\ ~AnyFailure(io.second))
                 => resp.value = [k \in 1..Len(io.second.data) |-> MapRelated(io.second.data[k])]

C15_Witness ==
    /\ InFetchRelatedArticles
    /\ Truthy(req.categoryId)
    /\ io.first.json = "no-data" /\ HasBody(io.first)
    /\ Len(calls) = 2
    /\ Len(resp.value) = 1

\* The equivalent item with flat fields.
Flatten(item) ==
    [item EXCEPT !.shape = "flat",
                 !.cover = IF @.shape = "nested" THEN [@ EXCEPT !.shape = "flat"] ELSE @,
                 !.category = IF @.shape = "nested" THEN [@ EXCEPT !.shape = "flat"] ELSE @]

\* C16: an item whose fields are nested under `attributes` is mapped by
\* fetchArticles and fetchArticleBySlug to the same Article as the
\* equivalent item with flat fields.
C16_NestedMappedAsFlat ==
    /\ (InFetchArticles /\ ~resp.caught)
         => \A k \in 1..Len(io.first.data) :
               io.first.data[k].shape = "nested"
                 => resp.value[k] = MapArticle(Flatten(io.first.data[k]))
    /\ (InFetchArticleBySlug /\ ~resp.caught /\ ~NoItems(io.first))
         => (io.first.data[1].shape = "nested"
               => resp.value = MapArticleBySlug(Flatten(io.first.data[1])))

\* The category a CMS item carries, as {id, name, slug}; null for none.
ItemCategory(item) ==
    IF item.category.shape = "none" THEN Nothing
    ELSE [id |-> item.category.id, name |-> item.category.name,
          slug |-> item.category.slug]

\* The Article has a non-empty cover url, the placeholder when the item
\* carries no cover url, and the item's category.
Defaulted(article, item) ==
    /\ article.cover.url \notin {Null, ""}
    /\ (item.cover.shape = "none" \/ item.cover.url = "")
         => article.cover.url = Placeholder
    /\ article.category = ItemCategory(item)

\* An item in the shape the Article type declares: flat fields, a flat
\* category or none.
DeclaredShape(item) == item.shape = "flat" /\ item.category.shape # "nested"

\* C17: every Article returned by fetchArticles or fetchArticleBySlug has a
\* non-empty cover.url ('/placeholder.jpg' when the item carries no cover
\* URL) and a category that is null when the item has no category and
\* otherwise the item's {id, name, slug}.
C17_OptionalFieldsDefaulted ==
    /\ (InFetchArticles /\ ~resp.caught)
         => \A k \in 1..Len(io.first.data) :
               DeclaredShape(io.first.data[k])
                 => Defaulted(resp.value[k], io.first.data[k])
    /\ (InFetchArticleBySlug /\ ~resp.caught /\ ~NoItems(io.first))
         => (DeclaredShape(io.first.data[1])
               => Defaulted(resp.value, io.first.data[1]))

\* C30: for the same CMS item, the category of the Article returned by
\* fetchArticleBySlug equals the category of that item in the list returned
\* by fetchArticles: both null, or both the same {id, name, slug}.
C30_SameCategory ==
    /\ (InFetchArticleBySlug /\ ~resp.caught /\ ~NoItems(io.first))
         => resp.value.category = MapArticle(io.first.data[1]).category
    /\ (InFetchArticles /\ ~resp.caught)
         => \A k \in 1..Len(io.first.data) :
               resp.value[k].category = MapArticleBySlug(io.first.data[k]).category

(***************************************************************************)
(* A server answering one request to GET /api/revalidate after another     *)
(* (src/app/api/revalidate/route.ts).  The module keeps no variable; what  *)
(* outlives an invocation is the log file revalidate-logs.txt.             *)
(***************************************************************************)

\* The most requests written to the log file in one run of the server.
MaxRequests == 3

\* const LOG_FILE = path.join(process.cwd(), 'revalidate-logs.txt')
RevalidateLogFile == "revalidate-logs.txt"

\* The messages GET and isValidRequest hand to log, in order.
LogMessages(r, e, x) ==
    << "Solicitud de revalidacion recibida" >>
    \o (IF ~Truthy(e.REVALIDATION_SECRET)
        THEN << "No se ha configurado REVALIDATION_SECRET" >>
        ELSE IF ~Truthy(r.secret)
        THEN << "No se proporciono el parametro secret" >>
        ELSE IF r.secret # e.REVALIDATION_SECRET
        THEN << "El token secreto proporcionado no es valido" >>
        ELSE << "Revalidando ruta: " \o RequestedPath(r) >>
             \o (IF x.thrown # Null
                 THEN << "Error durante la revalidacion: " \o x.thrown >>
                 ELSE << "Ruta revalidada exitosamente: " \o RequestedPath(r) >>))

\* The lines log adds to the file: none when the append throws.
AppendedLines(r, e, x) ==
    IF log_revalidate(x.appendFails) = "appended" THEN LogMessages(r, e, x) ELSE << >>

\* The requests the log file records.
Served(file) ==
    Len(SelectSeq(file, LAMBDA line : line = "Solicitud de revalidacion recibida"))

\* A handler that looks the path up in the log file and leaves out the
\* invalidation of a path it has already revalidated.
GET_revalidate_once(file, r, e, x) ==
    LET fresh == GET_revalidate(r, e, x)
        done == "Ruta revalidada exitosamente: " \o RequestedPath(r)
    IN  IF \E k \in 1..Len(file) : file[k] = done
        THEN [fresh EXCEPT !.calls = << >>]
        ELSE fresh

\* GET on a server whose log file holds `file`: the handler appends to the
\* file and never reads it, and the module has no variable of its own.
GET_revalidate_after(file, r, e, x) == GET_revalidate(r, e, x)

InitRepeat ==
    /\ env \in [REVALIDATION_SECRET : SecretConfigs,
                WEBHOOK_TOKEN : {Null}, NODE_ENV : {"production"}]
    /\ handler = "none"
    /\ req = NoReq
    /\ io = NoIo
    /\ calls = <<>>
    /\ resp = NoResp
    /\ logs = [file \in {RevalidateLogFile} |-> <<>>]
    /\ inflight = NoneInFlight
    /\ pending = NonePending
    /\ disk = NoDisk

\* One more request to GET /api/revalidate.
RevalidateAgain ==
    /\ handler = "none"
    /\ Served(logs[RevalidateLogFile]) < MaxRequests
    /\ \E r \in RevalidateRequests, x \in RevalidateIo :
         LET out == GET_revalidate_after(logs[RevalidateLogFile], r, env, x) IN
         /\ req' = r
         /\ io' = x
         /\ calls' = out.calls
         /\ resp' = out.resp
         /\ logs' = [logs EXCEPT ![RevalidateLogFile] = @ \o AppendedLines(r, env, x)]
    /\ handler' = "GET /api/revalidate"
    /\ UNCHANGED <<env, disk, inflight, pending>>

NextRepeat == RevalidateAgain \/ EndInvocation

SpecRepeat == InitRepeat /\ [][NextRepeat]_vars

\* The same path was revalidated by an earlier request.
RevalidatedBefore ==
    LET file == logs[RevalidateLogFile]
        done == "Ruta revalidada exitosamente: " \o RequestedPath(req)
    IN  Cardinality({ k \in 1..Len(file) : file[k] = done })
            > (IF io.appendFails \/ io.thrown # Null THEN 0 ELSE 1)

\* C18 as stated: in any sequence of requests, each request with a valid
\* secret calls revalidatePath exactly once for its path and returns
\* revalidated:true, however many times the path was requested before.
C18_Original ==
    (InRevalidateGET /\ SecretMatches)
        => /\ calls = << Call("revalidatePath", RequestedPath(req)) >>
           /\ resp.revalidated = "true"

\* C18 amended: the endpoint reads no record of earlier calls (it appends
\* to its log file and never reads it): in any sequence of requests, each
\* request with a valid secret calls revalidatePath exactly once for its
\* path, however many times the path was requested before, and returns
\* revalidated:true when that call returns and 500 with revalidated:false
\* when it throws; every request has the outcome it has as the first
\* request of the server.
C18_NoRecordOfEarlierCalls ==
    InRevalidateGET
        => /\ calls = GET_revalidate(req, env, io).calls
           /\ resp = GET_revalidate(req, env, io).resp
           /\ SecretMatches =>
                /\ calls = << Call("revalidatePath", RequestedPath(req)) >>
                /\ io.thrown = Null => resp.status = 200 /\ resp.revalidated = "true"
                /\ io.thrown # Null => resp.status = 500 /\ resp.revalidated = "false"

C18_Witness ==
    /\ InRevalidateGET
    /\ SecretMatches
    /\ req.path = "/news"
    /\ RevalidatedBefore
    /\ calls = << Call("revalidatePath", "/news") >>
    /\ resp.revalidated = "true"

(***************************************************************************)
(* Invocations of GET /api/revalidate and POST /api/webhook that overlap.  *)
(* A handler runs without interruption from one await to the next, so GET  *)
(* (which awaits nothing) is one step, and POST is cut at its awaits:      *)
(* clonedRequest.json(), validateWebhook(request) and request.json().      *)
(***************************************************************************)

\* The most invocations that overlap.
MaxConcurrent == 2

Invocations == 1..MaxConcurrent

\* const LOG_FILE = path.join(process.cwd(), 'webhook-logs.txt')
WebhookLogFile == "webhook-logs.txt"

\* log opening the file, reading it and writing it back.
LogAccess_rewrite(file) == [op |-> "read and write", resource |-> file]

\* The access of log to its file: fs.appendFileSync(LOG_FILE, logMessage)
LogAccess(file) == [op |-> "append", resource |-> file]

\* An invocation slot before its request arrives.
Idle ==
    [handler |-> "none", pc |-> "idle", req |-> NoReq, io |-> NoIo,
     calls |-> <<>>, resp |-> NoResp, accessed |-> {}]

\* The invocation ends with the calls and the response of `out`.
Done(p, out) == [p EXCEPT !.pc = "done", !.calls = out.calls, !.resp = out.resp]

\* The invocation has called log, which appended to the file.
Logged(p, file) == [p EXCEPT !.accessed = @ \cup {LogAccess(file)}]

\* The requests, kept few: a matching and a wrong secret or token, and a
\* body that does not parse, a published article and an updated category.
ConcurrentRevalidateRequests == [secret : {"s3cret", "wrong"}, path : {"/news"}]

ConcurrentWebhookRequests ==
    { [xWebhookToken |-> t, webhookToken |-> Null, xStrapiWebhookToken |-> Null,
       queryToken |-> Null, body |-> b] :
        t \in {"t0k3n", "bad"},
        b \in { [kind |-> "unreadable", event |-> Null, model |-> Null, slug |-> Null],
                [kind |-> "object", event |-> "entry.publish", model |-> "article",
                 slug |-> "about"],
                [kind |-> "object", event |-> "entry.update", model |-> "category",
                 slug |-> Null] } }

ConcurrentRevalidateIo ==
    { [appendFails |-> FALSE, thrown |-> Null],
      [appendFails |-> FALSE, thrown |-> ThrownMessage],
      [appendFails |-> TRUE, thrown |-> Null] }

ConcurrentWebhookIo ==
    { [appendFails |-> FALSE, throwAt |-> 0],
      [appendFails |-> FALSE, throwAt |-> 1],
      [appendFails |-> TRUE, throwAt |-> 0] }

InitConcurrent ==
    /\ env \in [REVALIDATION_SECRET : {"s3cret"}, WEBHOOK_TOKEN : {"t0k3n"},
                NODE_ENV : {"development", "production"}]
    /\ handler = "none"
    /\ req = NoReq
    /\ io = NoIo
    /\ calls = <<>>
    /\ resp = NoResp
    /\ logs = [file \in {RevalidateLogFile, WebhookLogFile} |-> {}]
    /\ inflight = [i \in Invocations |-> Idle]
    /\ pending = NonePending
    /\ disk = NoDisk

\* Invocation i of GET /api/revalidate, from its request to its response.
ConcurrentRevalidate(i) ==
    /\ inflight[i].pc = "idle"
    /\ \E r \in ConcurrentRevalidateRequests, x \in ConcurrentRevalidateIo :
         LET p == [Idle EXCEPT !.handler = "GET /api/revalidate", !.req = r, !.io = x]
             appended == log_revalidate(x.appendFails) = "appended"
         IN  /\ inflight' = [inflight EXCEPT ![i] =
                    Done(IF appended THEN Logged(p, RevalidateLogFile) ELSE p,
                         GET_revalidate(r, env, x))]
             /\ logs' = [logs EXCEPT ![RevalidateLogFile] =
                            IF appended THEN @ \cup {i} ELSE @]
    /\ UNCHANGED <<env, disk, handler, req, io, calls, resp, pending>>

\* Invocation i of POST /api/webhook, lines 77-99: the three log calls and
\* the start of the first read of the body.
WebhookReceive(i) ==
    /\ inflight[i].pc = "idle"
    /\ \E r \in ConcurrentWebhookRequests, x \in ConcurrentWebhookIo :
         LET p == [Idle EXCEPT !.handler = "POST /api/webhook", !.req = r, !.io = x] IN
         IF log_webhook(x.appendFails) = "thrown"
         THEN /\ inflight' = [inflight EXCEPT ![i] =
                     Done(p, [calls |-> <<>>, resp |-> Uncaught])]
              /\ logs' = logs
         ELSE /\ inflight' = [inflight EXCEPT ![i] =
                     [Logged(p, WebhookLogFile) EXCEPT !.pc = "reading"]]
              /\ logs' = [logs EXCEPT ![WebhookLogFile] = @ \cup {i}]
    /\ UNCHANGED <<env, disk, handler, req, io, calls, resp, pending>>

\* Lines 99-107: the body is logged, validateWebhook runs (and logs) up to
\* its return.
WebhookBodyRead(i) ==
    /\ inflight[i].pc = "reading"
    /\ inflight' = [inflight EXCEPT ![i] = [@ EXCEPT !.pc = "validating"]]
    /\ UNCHANGED <<env, disk, handler, req, io, calls, resp, logs, pending>>

\* Lines 107-117 and, when the body was read, 146-222.
WebhookValidated(i) ==
    /\ inflight[i].pc = "validating"
    /\ LET p == inflight[i] IN
       inflight' = [inflight EXCEPT ![i] =
          IF ~validateWebhook(p.req, env)
          THEN Done(p, [calls |-> <<>>,
                        resp |-> Json(401, [error |-> "Token invalido"])])
          ELSE IF p.req.body.kind = "null"
          THEN Done(p, [calls |-> <<>>,
                        resp |-> InternalError("Cannot convert undefined or null to object")])
          ELSE IF BodyIsEmpty(p.req.body)
          THEN [p EXCEPT !.pc = "rereading"]
          ELSE Done(p, HandleEvent(p.req.body, env, p.io))]
    /\ UNCHANGED <<env, disk, handler, req, io, calls, resp, logs, pending>>

\* Lines 117-144 and, when the second read gave a body, 146-222.
WebhookBodyReread(i) ==
    /\ inflight[i].pc = "rereading"
    /\ LET p == inflight[i] IN
       inflight' = [inflight EXCEPT ![i] =
          IF p.req.body.kind = "unreadable"
          THEN Done(p, UnreadableBody(env, p.io))
          ELSE Done(p, HandleEvent(p.req.body, env, p.io))]
    /\ UNCHANGED <<env, disk, handler, req, io, calls, resp, logs, pending>>

NextConcurrent ==
    \E i \in Invocations :
        \/ ConcurrentRevalidate(i)
        \/ WebhookReceive(i)
        \/ WebhookBodyRead(i)
        \/ WebhookValidated(i)
        \/ WebhookBodyReread(i)

SpecConcurrent == InitConcurrent /\ [][NextConcurrent]_vars

(***************************************************************************)
(* Claims about overlapping invocations (specification SpecConcurrent)     *)
(***************************************************************************)

\* What invocation p returns when it runs alone.
Alone(p) ==
    IF p.handler = "GET /api/revalidate" THEN GET_revalidate(p.req, env, p.io)
    ELSE POST_webhook(p.req, env, p.io)

\* The invocation has answered.
Answered(p) == p.pc = "done"

ParallelChains(todo) == [k \in 1..Len(todo) |-> << todo[k] >>]

\* for (...) { await call }: one chain, each call awaited before the next.
SequentialChain(todo) == IF todo = <<>> THEN <<>> ELSE << todo >>

\* Promise.all(pagesToRegenerate.map(async (path) => { await fetch(...);
\* await uploadStaticPageToS3(path) })): one chain for each page.
PageChains(pages) ==
    [k \in 1..Len(pages) |->
        << Call("fetch /api/revalidate", pages[k]),
           Call("uploadStaticPageToS3", pages[k]) >>]

\* pagesToRegenerate of the pages-API webhook handler
PagesToRegenerate(entry) ==
    << "/" >>
    \o (IF Truthy(entry.slug)
        THEN << "/news/" \o entry.slug >>
             \o (IF Truthy(entry.category)
                 THEN << "/category/" \o entry.category >> ELSE << >>)
        ELSE << >>)

\* pagesToRegenerate of regenerateStaticPages, and its calls: the CMS query
\* of fetchAllArticleSlugs, then one fetch of the revalidation endpoint for
\* each page (none when REVALIDATION_SECRET is not set: `continue`).
DeployPages(slugs) ==
    << "/", "/news" >> \o [k \in 1..Len(slugs) |-> "/news/" \o slugs[k]]

\* The revalidation requests sent whether REVALIDATION_SECRET is set or not.
DeployCalls_without_secret(slugs, e) ==
    << Call("fetchAllArticleSlugs", "fields[0]=slug") >>
    \o [k \in 1..Len(DeployPages(slugs)) |->
           Call("fetch /api/revalidate", DeployPages(slugs)[k])]

DeployCalls(slugs, e) ==
    << Call("fetchAllArticleSlugs", "fields[0]=slug") >>
    \o (IF Truthy(e.REVALIDATION_SECRET)
        THEN [k \in 1..Len(DeployPages(slugs)) |->
                 Call("fetch /api/revalidate", DeployPages(slugs)[k])]
        ELSE << >>)

\* The uploads of upload-to-s3.ts, by their keys.
UploadCalls(outDir, e) ==
    LET plan == main_upload_ts(outDir, e, [appendFails |-> FALSE, failAt |-> 0]).calls
    IN  [k \in 1..Len(plan) |-> Call("upload.done", plan[k].Key)]

\* The calls of chain c started so far, and the call of the chain to start next.
StartedOf(c) == { k \in 1..Len(calls) : calls[k].chain = c }

NextOf(c) == Cardinality(StartedOf(c)) + 1

InChain(call, c) == call @@ [chain |-> c]

InitIo ==
    /\ env \in [AWS_S3_BUCKET : {"bucket"}, AWS_S3_PREFIX : {Null}, ONLY_NEWS : {Null},
                REVALIDATION_SECRET : {Null, "s3cret"}]
    /\ handler = "none"
    /\ req = NoReq
    /\ io = NoIo
    /\ calls = <<>>
    /\ resp = NoResp
    /\ logs = NoLogs
    /\ inflight = NoneInFlight
    /\ pending = NonePending
    /\ disk = NoDisk

\* The invocation runs from its start to its first await: the first call
\* of every chain is started.  `answer` is the response when there is
\* nothing to await.
Begin(name, input, chains, answer) ==
    /\ handler = "none"
    /\ handler' = name
    /\ req' = [input |-> input, chains |-> chains]
    /\ io' = [rejected |-> {}]
    /\ calls' = [c \in 1..Len(chains) |-> InChain(chains[c][1], c)]
    /\ pending' = 1..Len(chains)
    /\ resp' = IF chains = <<>> THEN answer ELSE NoResp
    /\ UNCHANGED <<env, disk, logs, inflight>>

\* One run of upload-to-s3.ts.
BeginUploadTs ==
    \E d \in OutDirs :
        Begin("upload-to-s3.ts", d, SequentialChain(UploadCalls(d, env)),
              [exit |-> main_upload_ts(d, env, [appendFails |-> FALSE, failAt |-> 0]).exit])

\* One run of regenerateStaticPages; slugs is what fetchAllArticleSlugs
\* resolves to.
BeginRegenerate ==
    \E n \in 0..MaxSlug :
        Begin("regenerateStaticPages", SeqOfSlugs(n),
              SequentialChain(DeployCalls(SeqOfSlugs(n), env)), [returned |-> TRUE])

\* One request to the pages-API webhook handler.  signed: what
\* verifyWebhookSignature(req) returns.
BeginPagesWebhook ==
    \E method \in {"GET", "POST"}, signed \in BOOLEAN, model \in {"article", "category"},
       slug \in {Null} \cup Slugs, category \in {Null, "local"} :
        LET entry == [slug |-> slug, category |-> category]
            input == [method |-> method, signed |-> signed, model |-> model, entry |-> entry]
        IN  IF method # "POST"
            THEN Begin("pages/api/webhook", input, <<>>,
                       Json(405, [message |-> "Method not allowed"]))
            ELSE IF ~signed
            THEN Begin("pages/api/webhook", input, <<>>,
                       Json(401, [message |-> "Unauthorized"]))
            ELSE IF model # "article"
            THEN Begin("pages/api/webhook", input, <<>>,
                       Json(200, [message |-> "Ignored non-article event"]))
            ELSE Begin("pages/api/webhook", input, PageChains(PagesToRegenerate(entry)),
                       NoResp)

\* The response once call k has settled (ok: it fulfilled) and the code
\* awaiting it has run on: goesOn when it started the next call of its
\* chain, left and rejected being the calls then in flight and rejected.
Answer(ok, goesOn, left, rejected) ==
    IF handler = "upload-to-s3.ts"
    THEN \* the error is thrown again up to main: process.exit(1)
         IF ~ok THEN [exit |-> 1] ELSE IF ~goesOn THEN [exit |-> 0] ELSE resp
    ELSE IF handler = "regenerateStaticPages"
    THEN IF ~goesOn THEN [returned |-> TRUE] ELSE resp
    ELSE \* Promise.all rejects with the first rejection: the catch answers 500
         IF ~ok
         THEN (IF resp = NoResp
               THEN Json(500, [message |-> "Error processing webhook",
                               error |-> ThrownMessage])
               ELSE resp)
         ELSE IF left = {} /\ rejected = {}
         THEN Json(200, [message |-> "Pages regenerated and uploaded to S3"])
         ELSE resp

\* A call in flight settles and the code awaiting it runs to its next
\* await.  In regenerateStaticPages the catch inside the loop lets the loop
\* go on after a rejected call; fetchAllArticleSlugs never rejects.
Settle ==
    /\ handler # "none"
    /\ \E k \in pending, ok \in BOOLEAN :
         LET c == calls[k].chain
             chain == req.chains[c]
             n == NextOf(c)
             goesOn == (ok \/ handler = "regenerateStaticPages") /\ n <= Len(chain)
             left == (pending \ {k}) \cup (IF goesOn THEN {Len(calls) + 1} ELSE {})
             rejected == IF ok THEN io.rejected ELSE io.rejected \cup {k}
         IN  /\ ~ok => calls[k].fn # "fetchAllArticleSlugs"
             /\ calls' = IF goesOn THEN Append(calls, InChain(chain[n], c)) ELSE calls
             /\ pending' = left
             /\ io' = [rejected |-> rejected]
             /\ resp' = Answer(ok, goesOn, left, rejected)
    /\ UNCHANGED <<env, disk, handler, req, logs, inflight>>

\* The invocation is over once nothing it started is in flight.
EndRun ==
    /\ handler # "none"
    /\ pending = {}
    /\ handler' = "none"
    /\ req' = NoReq
    /\ io' = NoIo
    /\ calls' = <<>>
    /\ resp' = NoResp
    /\ UNCHANGED <<env, disk, logs, inflight, pending>>

NextIo == BeginUploadTs \/ BeginRegenerate \/ BeginPagesWebhook \/ Settle \/ EndRun

SpecIo == InitIo /\ [][NextIo]_vars

(***************************************************************************)
(* Claims about the calls in flight (specification SpecIo)                 *)
(***************************************************************************)

InPagesWebhook == handler = "pages/api/webhook"

\* C20 as stated: within one handler or script invocation no two external
\* calls are ever in flight at the same time.
C20_Original == Cardinality(pending) <= 1

\* C20 amended: upload-to-s3.ts and regenerateStaticPages await each
\* external call before they start the next one, so at most one of their
\* calls is in flight.  The pages-API webhook handler starts the
\* revalidation fetch of every page to regenerate at once (Promise.all over
\* an async map), so as many calls as there are pages can be in flight;
\* only within one page is the upload started after the page's
\* revalidation fetch has settled.
C20_SequentialExceptPromiseAll ==
    /\ ~InPagesWebhook => Cardinality(pending) <= 1
    /\ InPagesWebhook =>
         /\ Cardinality(pending) <= Len(req.chains)
         /\ \A c \in 1..Len(req.chains) : Cardinality(StartedOf(c) \cap pending) <= 1
         /\ \A k \in pending :
               calls[k].fn = "uploadStaticPageToS3"
                 => \E j \in 1..(k - 1) :
                       /\ calls[j] = InChain(Call("fetch /api/revalidate", calls[k].arg),
                                             calls[k].chain)
                       /\ j \notin pending

C20_Witness ==
    /\ InPagesWebhook
    /\ Len(req.chains) > 2
    /\ Cardinality(pending) = Len(req.chains)
    /\ \E k \in pending : calls[k].fn = "uploadStaticPageToS3"
    /\ \E k \in pending : calls[k].fn = "fetch /api/revalidate"

(***************************************************************************)
(* Further claims about the webhook (specification SpecWebhook)            *)
(***************************************************************************)

InWebhookGET == handler = "GET /api/webhook"

\* The request passed validateWebhook: it is let through and the appends to
\* the log file on the way worked.
Accepted == Authorized /\ ~io.appendFails

\* The body names one of the four events and an article model.
ArticleChange ==
    /\ req.body.kind = "object"
    /\ req.body.event \in {"entry.create", "entry.update",
                           "entry.publish", "entry.unpublish"}
    /\ req.body.model \in {"article", "articles"}

InvalidationThrew == io.throwAt >= 1 /\ Len(calls) >= io.throwAt

IssuedBase ==
    /\ Len(calls) >= 4
    /\ SubSeq(calls, 1, 4) = ListedInvalidations("")

WrongHeaderRightQuery ==
    /\ Truthy(env.WEBHOOK_TOKEN)
    /\ Truthy(req.xWebhookToken)
    /\ req.xWebhookToken # env.WEBHOOK_TOKEN
    /\ req.queryToken = env.WEBHOOK_TOKEN

MaxCmsSlugs == 2

\* What fetchAllArticleSlugs may resolve to: the slugs in the order of the
\* CMS response, [] when the query fails.
CmsSlugLists ==
    UNION { [1..n -> Slugs \cup {"articulo-de-prueba"}] : n \in 0..MaxCmsSlugs }

\* pagesToRegenerate of the JavaScript variant (hardcoded)
DeployPagesJs == << "/", "/news", "/news/articulo-de-prueba" >>

\* The upload started without a look at the build's outcome or at out/.
AfterBuildJs_always_uploads(x) ==
    [calls |-> << Call("exec", "node scripts/upload-to-s3.js") >>,
     last  |-> "Proceso de despliegue completado con exito"]

\* deploy of the JavaScript variant after runCommand(build) was called: the
\* build's rejection, the test of out/ and the upload command.
AfterBuildJs(x) ==
    IF x.buildFails \/ ~x.outExists
    THEN [calls |-> << >>, last |-> "Error en el proceso de despliegue"]
    ELSE [calls |-> << Call("exec", "node scripts/upload-to-s3.js") >>,
          last  |-> IF x.uploadFails
                    THEN "Error en el proceso de despliegue"
                    ELSE "Proceso de despliegue completado con exito"]

\* deploy of webhook-deploy.ts.  slugs: what fetchAllArticleSlugs resolves
\* to.  The loop of regenerateStaticPages catches what a page's request
\* throws and goes on; the S3 upload step is commented out.  exit -1: the
\* script sets no exit code, deploy() rejected at its first log call.
deploy_ts(slugs, e, x) ==
    IF x.appendFails THEN [calls |-> << >>, last |-> Null, exit |-> -1]
    ELSE [calls |-> DeployCalls(slugs, e) \o << Call("exec", "npm run build") >>,
          last  |-> IF x.buildFails THEN "El proceso de despliegue fallo"
                    ELSE "Despliegue completado exitosamente",
          exit  |-> IF x.buildFails THEN 1 ELSE 0]

\* deploy of the JavaScript variant: the secret defaults to 'test-secret',
\* so every page's request is sent; the catch logs and the script ends.
deploy_js(e, x) ==
    IF x.appendFails THEN [calls |-> << >>, last |-> Null, exit |-> -1]
    ELSE [calls |-> [k \in 1..Len(DeployPagesJs) |->
                        Call("fetch /api/revalidate", DeployPagesJs[k])]
                    \o << Call("exec", "NODE_ENV=production npm run build") >>
                    \o AfterBuildJs(x).calls,
          last  |-> AfterBuildJs(x).last,
          exit  |-> 0]

\* What the world does to one run.  reval[k]: the k-th revalidation request
\* is answered with revalidated ("ok"), answered otherwise ("failed"), or
\* rejects ("rejected"); buildFails / uploadFails: the command exits with an
\* error; outExists: out/ exists after the build; appendFails: the append
\* to webhook-deploy-logs.txt throws.
DeployIo(n) ==
    [appendFails : {FALSE}, reval : [1..n -> {"ok", "failed", "rejected"}],
     buildFails : BOOLEAN, outExists : BOOLEAN, uploadFails : BOOLEAN]
    \cup [appendFails : {TRUE}, reval : {<< >>}, buildFails : {FALSE},
          outExists : {FALSE}, uploadFails : {FALSE}]

InitDeploy ==
    /\ env \in [REVALIDATION_SECRET : {Null, "s3cret"}]
    /\ handler = "none"
    /\ req = NoReq
    /\ io = NoIo
    /\ calls = <<>>
    /\ resp = NoResp
    /\ logs = NoLogs
    /\ inflight = NoneInFlight
    /\ pending = NonePending
    /\ disk = NoDisk

\* One run of webhook-deploy.ts.
DeployTs ==
    /\ handler = "none"
    /\ \E slugs \in CmsSlugLists :
       \E x \in DeployIo(Len(DeployCalls(slugs, env)) - 1) :
         LET out == deploy_ts(slugs, env, x) IN
         /\ req' = [slugs |-> slugs]
         /\ io' = x
         /\ calls' = out.calls
         /\ resp' = [last |-> out.last, exit |-> out.exit]
    /\ handler' = "webhook-deploy.ts"
    /\ UNCHANGED <<env, disk, logs, inflight, pending>>

\* One run of the JavaScript variant; slugs is what the CMS would return.
DeployJs ==
    /\ handler = "none"
    /\ \E slugs \in CmsSlugLists, x \in DeployIo(Len(DeployPagesJs)) :
         LET out == deploy_js(env, x) IN
         /\ req' = [slugs |-> slugs]
         /\ io' = x
         /\ calls' = out.calls
         /\ resp' = [last |-> out.last, exit |-> out.exit]
    /\ handler' = "webhook-deploy.js"
    /\ UNCHANGED <<env, disk, logs, inflight, pending>>

NextDeploy == DeployTs \/ DeployJs \/ EndInvocation

SpecDeploy == InitDeploy /\ [][NextDeploy]_vars

(***************************************************************************)
(* Claims about the deploy scripts (specification SpecDeploy)              *)
(***************************************************************************)

InDeployTs == handler = "webhook-deploy.ts"

InDeployJs == handler = "webhook-deploy.js"

IsRequest(c) == c.fn = "fetch /api/revalidate"

IsCommand(c) == c.fn = "exec"

\* The pages whose revalidation was requested in this run, in order.
Requested ==
    LET sent == SelectSeq(calls, IsRequest)
    IN  [k \in 1..Len(sent) |-> sent[k].arg]

\* '/', '/news', then '/news/<slug>' for each slug the CMS returned.
ClaimedPages ==
    << "/", "/news" >> \o [k \in 1..Len(req.slugs) |-> "/news/" \o req.slugs[k]]

BuildStarted ==
    \E k \in 1..Len(calls) :
        calls[k] \in {Call("exec", "npm run build"),
                      Call("exec", "NODE_ENV=production npm run build")}

UploadStarted ==
    \E k \in 1..Len(calls) : calls[k] = Call("exec", "node scripts/upload-to-s3.js")

FailureLogged ==
    resp.last \in {"El proceso de despliegue fallo", "Error en el proceso de despliegue"}

\* Requests, then the build, then the upload: the order of the calls.
StepsInOrder ==
    \A i, j \in 1..Len(calls) :
        /\ (IsRequest(calls[i]) /\ IsCommand(calls[j])) => i < j
        /\ ( /\ IsCommand(calls[i])
             /\ calls[j] = Call("exec", "node scripts/upload-to-s3.js")
             /\ i # j ) => i < j

Commented(content) == IF content = "force-dynamic" THEN "commented" ELSE content

\* originalConfig.replace(/output: undefined,/, 'output: "export",')
\*               .replace(/distDir: '.next',/, 'distDir: "out",')
ModifiedConfig(config) ==
    [output  |-> IF config.output = "undefined" THEN "\"export\"" ELSE config.output,
     distDir |-> IF config.distDir = "'.next'" THEN "\"out\"" ELSE config.distDir]

\* The sources before a run: app/api/webhook/route.ts,
\* app/api/revalidate/route.ts and next.config.ts.
SourceFiles ==
    [webhook : {"missing", "force-dynamic", "static"},
     revalidate : {"missing", "force-dynamic", "static"},
     config : [output : {"undefined", "'export'"}, distDir : {"'.next'", "'out'"}]]

\* appendFails: the append to static-export-logs.txt throws; buildFails:
\* execSync('npx next build') throws; writeFails: fs.writeFileSync of
\* app/api/revalidate/route.ts throws in modifyApiRoutes ("modify") or in
\* restoreApiRoutes ("restore").
ExactosIo ==
    [appendFails : {FALSE}, buildFails : BOOLEAN,
     writeFails : {"never", "modify", "restore"}]
    \cup [appendFails : {TRUE}, buildFails : {FALSE}, writeFails : {"never"}]

\* main: the sources when the script ends, and its exit code (-1: main
\* rejected, no exit code set by the script).  The restore of
\* next.config.ts is the last statement but one of the inner try block, so
\* a build that throws skips it.  `backups` is declared inside main's try
\* block: in the catch block restoreApiRoutes(backups) throws a
\* ReferenceError, which the try around it catches, and nothing is restored.
main_exactos(files, x) ==
    IF x.appendFails THEN [files |-> files, exit |-> -1]
    ELSE IF x.writeFails = "modify" /\ files.revalidate # "missing"
    THEN [files |-> [files EXCEPT !.webhook = Commented(@)], exit |-> 1]
    ELSE LET built == [files EXCEPT
                          !.webhook = Commented(@),
                          !.revalidate = Commented(@),
                          !.config = IF x.buildFails THEN ModifiedConfig(@) ELSE @]
         IN  IF x.writeFails = "restore" /\ files.revalidate # "missing"
             THEN [files |-> [built EXCEPT !.webhook = files.webhook], exit |-> 1]
             ELSE [files |-> [built EXCEPT !.webhook = files.webhook,
                                          !.revalidate = files.revalidate],
                   exit  |-> 0]

InitExactos ==
    /\ env = [NEXT_PUBLIC_STATIC_EXPORT |-> Null]
    /\ handler = "none"
    /\ req = NoReq
    /\ io = NoIo
    /\ calls = <<>>
    /\ resp = NoResp
    /\ logs = NoLogs
    /\ inflight = NoneInFlight
    /\ pending = NonePending
    /\ disk = NoDisk

\* One run of generar-estaticos-exactos.mjs.
GenerarEstaticosExactos ==
    /\ handler = "none"
    /\ \E files \in SourceFiles, x \in ExactosIo :
         LET out == main_exactos(files, x) IN
         /\ req' = [files |-> files]
         /\ io' = x
         /\ calls' = IF x.appendFails \/ (x.writeFails = "modify" /\ files.revalidate # "missing")
                     THEN << >> ELSE << Call("execSync", "npx next build") >>
         /\ resp' = out
    /\ handler' = "generar-estaticos-exactos.mjs"
    /\ UNCHANGED <<env, disk, logs, inflight, pending>>

NextExactos == GenerarEstaticosExactos \/ EndInvocation

SpecExactos == InitExactos /\ [][NextExactos]_vars

(***************************************************************************)
(* Claim about generar-estaticos-exactos.mjs (specification SpecExactos)   *)
(***************************************************************************)

\* C25: when the script ends, on every path (the build succeeds, the build
\* command fails, main's error path is taken), both API route files and
\* next.config.ts have exactly the content they had before the run.
C25_SourcesRestored ==
    handler = "generar-estaticos-exactos.mjs" => resp.files = req.files

(***************************************************************************)
(* Two runs of generar-estaticos.js that overlap on the same out/.  The    *)
(* script is synchronous; runs are separate processes, so their file       *)
(* system calls interleave.  generar-estaticos-optimizado.mjs cleans and   *)
(* fills out/ in the same order (lines 898-904, 912, 963, 973-979).        *)
(***************************************************************************)

\* The number of articles of the hardcoded list that a run writes.
MaxArticulos == 2

\* const articulos = [...] (hardcoded), cut to its first MaxArticulos slugs
Articulos ==
    SubSeq(<< "a-bug-is-becoming-a-meme-on-the-internet", "beautiful-picture",
              "the-internet-s-own-boy", "what-s-inside-a-black-hole",
              "why-the-web-is-turning-purple", "this-shrimp-is-awesome",
              "my-first-article", "say-hello-to-html-elements",
              "my-biggest-adventure", "exploring-the-sahara", "japan-travel-guide",
              "the-rise-of-blockchain-technology", "how-to-use-apis-with-javascript",
              "the-future-of-artificial-intelligence", "understanding-seo-for-beginners",
              "the-best-frameworks-for-frontend-development",
              "getting-started-with-react" >>, 1, MaxArticulos)

\* The two runs.
Runs == {1, 2}

\* Every page written to index.html.
ArchivoHTML_always_index(ruta) == "index.html"

\* nombreArchivo, relative to out/:
\* ruta.endsWith('/') ? `${rutaCompleta}index.html` : `${rutaCompleta}.html`
ArchivoHTML(ruta) == IF ruta = "/" THEN "index.html" ELSE ruta \o ".html"

\* The files a run writes, in order: the copy of .next/static, the page of
\* '/', and the page of each article.
ArchivosDeSalida ==
    << "_next/static", ArchivoHTML("/") >>
    \o [k \in 1..Len(Articulos) |-> ArchivoHTML("news/" \o Articulos[k])]

\* fs.rmSync(OUT_DIR, { recursive: true, force: true })
rmSync(d) == [exists |-> FALSE, files |-> {}]

\* crearDirectorio(dir) for out/ or a directory below it:
\* fs.mkdirSync(dir, { recursive: true })
crearDirectorio(d) == [d EXCEPT !.exists = TRUE]

\* A run before its first statement.  k: the files of ArchivosDeSalida
\* written so far; lost: the files this run wrote that another run's
\* cleanup removed.
NotStarted == [pc |-> "start", k |-> 0, lost |-> {}]

Written(p) == { ArchivosDeSalida[j] : j \in 1..p.k }

InitExport ==
    /\ env = [NODE_ENV |-> Null]
    /\ handler = "none"
    /\ req = NoReq
    /\ io = NoIo
    /\ calls = <<>>
    /\ resp = NoResp
    /\ logs = NoLogs
    /\ inflight = [i \in Runs |-> NotStarted]
    /\ pending = NonePending
    /\ disk \in { NoDisk,
                  [exists |-> TRUE,
                   files |-> { ArchivosDeSalida[j] : j \in 1..Len(ArchivosDeSalida) }] }

\* Lines 111-114: if (fs.existsSync(OUT_DIR))
Start(i) ==
    /\ inflight[i].pc = "start"
    /\ inflight' = [inflight EXCEPT ![i].pc = IF disk.exists THEN "clean" ELSE "mkdir"]
    /\ UNCHANGED <<env, handler, req, io, calls, resp, logs, pending, disk>>

\* Lines 115-116: the cleanup removes out/ with all it holds, whoever wrote it.
Clean(i) ==
    /\ inflight[i].pc = "clean"
    /\ disk' = rmSync(disk)
    /\ inflight' = [j \in Runs |->
                      IF j = i THEN [inflight[j] EXCEPT !.pc = "mkdir"]
                      ELSE [inflight[j] EXCEPT
                              !.lost = @ \cup (Written(inflight[j]) \cap disk.files)]]
    /\ UNCHANGED <<env, handler, req, io, calls, resp, logs, pending>>

\* Line 120: crearDirectorio(OUT_DIR)
Mkdir(i) ==
    /\ inflight[i].pc = "mkdir"
    /\ disk' = crearDirectorio(disk)
    /\ inflight' = [inflight EXCEPT ![i].pc = "build"]
    /\ UNCHANGED <<env, handler, req, io, calls, resp, logs, pending>>

\* Line 124: execSync('npm run build'); when it throws, main's catch calls
\* process.exit(1).
Build(i) ==
    /\ inflight[i].pc = "build"
    /\ \E ok \in BOOLEAN :
         inflight' = [inflight EXCEPT ![i].pc = IF ok THEN "write" ELSE "failed"]
    /\ UNCHANGED <<env, handler, req, io, calls, resp, logs, pending, disk>>

\* Lines 128-169: the next file is written.  copiarDirectorio and
\* crearArchivoHTML of an article create the directories they need;
\* crearArchivoHTML('/') writes out/index.html without creating out/, and
\* throws when out/ is not there.
Write(i) ==
    /\ inflight[i].pc = "write"
    /\ LET file == ArchivosDeSalida[inflight[i].k + 1] IN
       IF file = ArchivoHTML("/") /\ ~disk.exists
       THEN /\ inflight' = [inflight EXCEPT ![i].pc = "failed"]
            /\ disk' = disk
       ELSE /\ disk' = [crearDirectorio(disk) EXCEPT !.files = @ \cup {file}]
            /\ inflight' = [inflight EXCEPT
                              ![i].k = @ + 1,
                              ![i].pc = IF inflight[i].k + 1 = Len(ArchivosDeSalida)
                                        THEN "report" ELSE "write"]
    /\ UNCHANGED <<env, handler, req, io, calls, resp, logs, pending>>

\* Lines 176-178: success is logged; fs.readdirSync(OUT_DIR) throws when
\* out/ is not there.
Report(i) ==
    /\ inflight[i].pc = "report"
    /\ inflight' = [inflight EXCEPT ![i].pc = IF disk.exists THEN "succeeded" ELSE "failed"]
    /\ UNCHANGED <<env, handler, req, io, calls, resp, logs, pending, disk>>

NextExport ==
    \E i \in Runs :
        Start(i) \/ Clean(i) \/ Mkdir(i) \/ Build(i) \/ Write(i) \/ Report(i)

SpecExport == InitExport /\ [][NextExport]_vars

(***************************************************************************)
(* Claim about overlapping export runs (specification SpecExport)          *)
(***************************************************************************)

\* A complete output directory: the static files, index.html and one page
\* for each article.
CompleteOutput ==
    {"_next/static", "index.html"}
    \cup { "news/" \o Articulos[k] \o ".html" : k \in 1..Len(Articulos) }

\* The files of a complete output directory that out/ lacks.
MissingFiles == CompleteOutput \ disk.files

\* C21: nothing guards a run against another run on the same out/.  A run
\* that ended with success has written every file, and out/ then lacks
\* only files that another run's cleanup (the recursive removal of out/)
\* deleted after this run had written them; a state in which a run has
\* ended with success and out/ is incomplete for that reason is reachable
\* (C21_Witness).
C21_CleanupDeletesOtherRunsFiles ==
    \A i \in Runs :
        inflight[i].pc = "succeeded"
            => /\ inflight[i].k = Len(ArchivosDeSalida)
               /\ MissingFiles \subseteq inflight[i].lost

\* Run 1 has ended with success while run 2, whose cleanup deleted the
\* index.html run 1 had written, is still building: out/ has no index.html.
C21_Witness ==
    /\ inflight[1].pc = "succeeded"
    /\ inflight[2].pc = "build"
    /\ "index.html" \in inflight[1].lost
    /\ "index.html" \in MissingFiles
    /\ ("news/" \o Articulos[Len(Articulos)] \o ".html") \in disk.files

====
